---- MODULE Spec2Model ----
(***************************************************************************)
(* A model of rustatio: the simulated transfer engine (rustatio-core,      *)
(* RatioFaker) and the server's instance registry, lifecycle operations    *)
(* and centralized scheduler (rustatio-server, services/).                 *)
(*                                                                         *)
(* Time is counted in seconds.  Rates are kept in 1/10000 KB/s so that the *)
(* percentage randomisation and the progressive ramp stay in the integers; *)
(* ratios are kept in thousandths (the ratio tolerance of the code is      *)
(* 0.001).  An Option<u64> that is None is the number -1.                  *)
(***************************************************************************)
EXTENDS Integers, Sequences, FiniteSets, TLC

\* ------------------------------------------------------------------ bounds
MaxTicks == 2
MaxAnnounces == 2
MaxTasks == 1
MaxFiles == 3

\* ---------------------------------------------------------------- constants
KB == 1024
RETRY_SECS == 30
DEFAULT_INTERVAL == 1800
UPDATE_INTERVAL == 5
RATIO_EPSILON_MILLI == 1
None == -1

Min(a, b) == IF a <= b THEN a ELSE b
Max(a, b) == IF a >= b THEN a ELSE b

\* u64::saturating_sub
saturating_sub(a, b) == IF a >= b THEN a - b ELSE 0

\* ------------------------------------------------------------ configuration
\* FakerConfig together with the torrent's total_size.  completion is the
\* completion_percent as the fraction num/den of 100 percent.
BaseConfig ==
    [ total_size |-> 12288, upload_rate |-> 1, download_rate |-> 1,
      initial_uploaded |-> 0, initial_downloaded |-> 0,
      completion |-> <<1, 1>>,
      randomize_rates |-> FALSE, random_range_percent |-> 20,
      stop_at_ratio |-> None, stop_at_uploaded |-> None,
      stop_at_downloaded |-> None, stop_at_seed_time |-> None,
      idle_when_no_leechers |-> FALSE, idle_when_no_seeders |-> FALSE,
      scrape_interval |-> 5,
      progressive_rates |-> FALSE, target_upload_rate |-> None,
      target_download_rate |-> None, progressive_duration |-> 10 ]

\* The configurations the engine is checked under: a seeder with an upload
\* target and carried-over totals above it; a leecher at 50 percent with both
\* idle toggles; a leecher at 0 percent with a ratio target, a download target
\* and carried-over totals; an empty torrent with a seed-time target.
Configs ==
    { [BaseConfig EXCEPT !.stop_at_uploaded = 10240, !.initial_uploaded = 20480],
      [BaseConfig EXCEPT !.completion = <<1, 2>>,
                         !.idle_when_no_leechers = TRUE, !.idle_when_no_seeders = TRUE],
      [BaseConfig EXCEPT !.total_size = 10240, !.completion = <<0, 1>>,
                         !.stop_at_ratio = 1000, !.stop_at_downloaded = 10240,
                         !.initial_uploaded = 20480, !.initial_downloaded = 20480],
      [BaseConfig EXCEPT !.total_size = 0, !.stop_at_seed_time = 10] }

\* What the tracker may answer to an announce or a scrape: an error (a
\* protocol error or a timeout), or interval, seeders (complete) and
\* leechers (incomplete).
TrackerError == [ok |-> FALSE, interval |-> 0, complete |-> 0, incomplete |-> 0]
TrackerReplies ==
    { TrackerError,
      [ok |-> TRUE, interval |-> 5, complete |-> 0, incomplete |-> 0],
      [ok |-> TRUE, interval |-> 5, complete |-> 2, incomplete |-> 3] }

\* The factor of apply_randomization, in percent, for a range in percent:
\* 1 + (r * 2 * range - range) with r in [0, 1).
RandomPercents(range) == {100 - range, 100, 100 + range - 1}

\* ------------------------------------------------------------------ engine
\* RatioFaker::new.  The record holds the engine's fields (state is the
\* engine's own lifecycle field, stats_state the copy inside FakerStats) and
\* the position of the operation in progress: pc names the tracker call being
\* awaited ("none": no operation in progress), op the operation that awaits
\* it, now0 and elapsed0 the `now` and `elapsed` that operation captured,
\* ret the operation that returned last, with its result and whether it was a
\* stop() that found the engine Stopped and skipped its announce.
new(config) ==
    LET completion == Min(Max(config.completion[1], 0), config.completion[2])
        torrent_downloaded == (config.total_size * completion) \div config.completion[2]
        left == saturating_sub(config.total_size, torrent_downloaded)
    IN  [ config |-> config,
          state |-> "Stopped", stats_state |-> "Stopped",
          uploaded |-> config.initial_uploaded,
          downloaded |-> config.initial_downloaded,
          ratio |-> IF config.initial_downloaded > 0
                      THEN (config.initial_uploaded * 1000) \div config.initial_downloaded
                      ELSE 0,
          left |-> left,
          seeders |-> 0, leechers |-> 0,
          is_idling |-> FALSE, idling_reason |-> "None",
          session_uploaded |-> 0, session_downloaded |-> 0, session_ratio |-> 0,
          elapsed_time |-> 0,
          current_upload_rate |-> 0, current_download_rate |-> 0,
          next_announce |-> None, announce_count |-> 0,
          start_time |-> 0, last_update |-> 0,
          announce_interval |-> DEFAULT_INTERVAL,
          last_scrape |-> 0, scrape_supported |-> TRUE,
          pc |-> "none", op |-> "none", now0 |-> 0, elapsed0 |-> 0,
          ret |-> [op |-> "new", ok |-> TRUE, skipped |-> FALSE] ]

\* An engine constructed at time t: the Instant::now() of new().
newAt(config, t) ==
    [new(config) EXCEPT !.start_time = t, !.last_update = t, !.last_scrape = t]

\* RatioFaker::announce: the request is built and the call is awaited.
announce(e, pcname) == [e EXCEPT !.pc = pcname]

\* The operation in progress returns ok (Ok(())) or an error.
returns(e, ok) ==
    [e EXCEPT !.pc = "none", !.op = "none", !.now0 = 0, !.elapsed0 = 0,
              !.ret = [op |-> e.op, ok |-> ok, skipped |-> FALSE]]

\* RatioFaker::start up to its "started" announce.
start(e, t) ==
    announce([e EXCEPT !.op = "start", !.state = "Starting", !.stats_state = "Starting",
                       !.start_time = t, !.last_update = t],
             "start_announce")

\* start() as it would be if the announce error were propagated with `?`.
start_reply_propagating(e, t, r) ==
    IF r.ok
      THEN returns([e EXCEPT !.announce_interval = r.interval,
                             !.seeders = r.complete, !.leechers = r.incomplete,
                             !.next_announce = t + r.interval,
                             !.announce_count = @ + 1,
                             !.state = "Running", !.stats_state = "Running"], TRUE)
      ELSE returns(e, FALSE)

\* RatioFaker::start from the answer to its announce, received at time t.
start_reply(e, t, r) ==
    LET a == IF r.ok
               THEN [e EXCEPT !.announce_interval = r.interval,
                              !.seeders = r.complete, !.leechers = r.incomplete,
                              !.next_announce = t + r.interval,
                              !.announce_count = @ + 1]
               ELSE [e EXCEPT !.next_announce = t + RETRY_SECS]
    IN  returns([a EXCEPT !.state = "Running", !.stats_state = "Running"], TRUE)

\* stop() as it would be if the announce error were propagated with `?`.
stop_reply_propagating(e, r) ==
    IF r.ok
      THEN returns([e EXCEPT !.announce_count = @ + 1,
                             !.state = "Stopped", !.stats_state = "Stopped",
                             !.is_idling = FALSE, !.idling_reason = "None"], TRUE)
      ELSE returns(e, FALSE)

\* RatioFaker::stop from the answer to its "stopped" announce.
stop_reply(e, r) ==
    LET a == IF r.ok THEN [e EXCEPT !.announce_count = @ + 1] ELSE e
    IN  returns([a EXCEPT !.state = "Stopped", !.stats_state = "Stopped",
                          !.is_idling = FALSE, !.idling_reason = "None"], TRUE)

\* stop() as it would be without its guard.
stop_body_unguarded(e) ==
    announce([e EXCEPT !.state = "Stopping", !.stats_state = "Stopping"], "stop_announce")

\* stop() as it would be if the state were left alone until the announce has
\* been answered.
stop_body_announcing_first(e) ==
    IF e.state = "Stopped"
      THEN [returns(e, TRUE) EXCEPT !.ret.skipped = TRUE]
      ELSE announce(e, "stop_announce")

\* RatioFaker::stop up to its "stopped" announce; the guard makes a stop of a
\* Stopped engine return at once.
stop_body(e) ==
    IF e.state = "Stopped"
      THEN [returns(e, TRUE) EXCEPT !.ret.skipped = TRUE]
      ELSE announce([e EXCEPT !.state = "Stopping", !.stats_state = "Stopping"],
                    "stop_announce")

stop(e) == stop_body([e EXCEPT !.op = "stop"])

\* pause() as it would be if it set the engine's own state only.
pause_own_state_only(e) ==
    returns([e EXCEPT !.op = "pause", !.state = "Paused",
                      !.is_idling = FALSE, !.idling_reason = "None"], TRUE)

\* RatioFaker::pause
pause(e) ==
    returns([e EXCEPT !.op = "pause", !.state = "Paused", !.stats_state = "Paused",
                      !.is_idling = FALSE, !.idling_reason = "None"], TRUE)

\* resume() as it would be if it left the last-update instant alone.
resume_keeping_last_update(e, t) ==
    returns([e EXCEPT !.op = "resume", !.state = "Running", !.stats_state = "Running"], TRUE)

\* RatioFaker::resume
resume(e, t) ==
    returns([e EXCEPT !.op = "resume", !.state = "Running", !.stats_state = "Running",
                      !.last_update = t], TRUE)

\* RatioFaker::calculate_progressive_rate, in 1/100 KB/s
calculate_progressive_rate(start_rate, target_rate, elapsed_secs, duration_secs) ==
    IF elapsed_secs >= duration_secs
      THEN target_rate * 100
      ELSE start_rate * 100 + ((target_rate - start_rate) * 100 * elapsed_secs) \div duration_secs

\* RatioFaker::apply_randomization: base_rate in 1/100 KB/s, pct the random
\* factor in percent; the result is in 1/10000 KB/s.
apply_randomization(e, base_rate, pct) ==
    IF e.config.randomize_rates THEN base_rate * pct ELSE base_rate * 100

\* calculate_current_rates as it would be if the no-seeders block set the
\* idling reason unconditionally.
calculate_current_rates_last_wins(e, pu, pd) ==
    LET c == e.config
        no_leechers == c.idle_when_no_leechers /\ e.leechers = 0 /\ e.announce_count > 0
        no_seeders == c.idle_when_no_seeders /\ e.seeders = 0 /\ e.left > 0
                      /\ e.announce_count > 0
    IN  [ e |-> [e EXCEPT !.is_idling = no_leechers \/ no_seeders,
                          !.idling_reason = IF no_seeders THEN "no_seeders"
                                            ELSE IF no_leechers THEN "no_leechers" ELSE "None"],
          upload_rate |-> IF no_leechers THEN 0
                          ELSE apply_randomization(e, c.upload_rate * 100, pu),
          download_rate |-> IF e.left = 0 \/ no_seeders THEN 0
                            ELSE apply_randomization(e, c.download_rate * 100, pd) ]

\* calculate_current_rates as it would be if the idle toggles applied before
\* the first completed announce.
calculate_current_rates_before_first_announce(e, pu, pd) ==
    LET c == e.config
        no_leechers == c.idle_when_no_leechers /\ e.leechers = 0
        no_seeders == c.idle_when_no_seeders /\ e.seeders = 0 /\ e.left > 0
        upload_rate == IF no_leechers THEN 0 ELSE apply_randomization(e, c.upload_rate * 100, pu)
        download_rate == IF e.left = 0 \/ no_seeders THEN 0
                         ELSE apply_randomization(e, c.download_rate * 100, pd)
    IN  [ e |-> [e EXCEPT !.is_idling = no_leechers \/ no_seeders,
                          !.idling_reason = IF no_leechers THEN "no_leechers"
                                            ELSE IF no_seeders THEN "no_seeders" ELSE "None"],
          upload_rate |-> upload_rate, download_rate |-> download_rate ]

\* RatioFaker::calculate_current_rates: the engine with its idle state set,
\* and the two rates.
calculate_current_rates(e, pu, pd) ==
    LET c == e.config
        base_upload_rate ==
            IF c.progressive_rates
              THEN calculate_progressive_rate(c.upload_rate,
                       IF c.target_upload_rate = None THEN c.upload_rate ELSE c.target_upload_rate,
                       e.elapsed_time, c.progressive_duration)
              ELSE c.upload_rate * 100
        base_download_rate ==
            IF c.progressive_rates
              THEN calculate_progressive_rate(c.download_rate,
                       IF c.target_download_rate = None THEN c.download_rate ELSE c.target_download_rate,
                       e.elapsed_time, c.progressive_duration)
              ELSE c.download_rate * 100
        no_leechers == c.idle_when_no_leechers /\ e.leechers = 0 /\ e.announce_count > 0
        no_seeders == c.idle_when_no_seeders /\ e.seeders = 0 /\ e.left > 0
                      /\ e.announce_count > 0
        upload_rate == IF no_leechers THEN 0 ELSE apply_randomization(e, base_upload_rate, pu)
        download_rate == IF e.left = 0 \/ no_seeders THEN 0
                         ELSE apply_randomization(e, base_download_rate, pd)
    IN  [ e |-> [e EXCEPT !.is_idling = no_leechers \/ no_seeders,
                          !.idling_reason = IF no_leechers THEN "no_leechers"
                                            ELSE IF no_seeders THEN "no_seeders" ELSE "None"],
          upload_rate |-> upload_rate, download_rate |-> download_rate ]

\* RatioFaker::update_rate_stats
update_rate_stats(e, upload_rate, download_rate) ==
    [e EXCEPT !.current_upload_rate = upload_rate, !.current_download_rate = download_rate]

\* update_transfer_stats as it would be without the cap at the remaining left.
update_transfer_stats_uncapped(e, upload_delta, download_delta) ==
    LET u == [e EXCEPT !.uploaded = @ + upload_delta, !.session_uploaded = @ + upload_delta]
    IN  IF e.left > 0
          THEN [ e |-> [u EXCEPT !.downloaded = @ + download_delta,
                                 !.session_downloaded = @ + download_delta,
                                 !.left = @ - download_delta],
                 completed |-> e.left - download_delta <= 0 ]
          ELSE [ e |-> u, completed |-> FALSE ]

\* update_transfer_stats as it would be if left were not reduced.
update_transfer_stats_keeping_left(e, upload_delta, download_delta) ==
    LET u == [e EXCEPT !.uploaded = @ + upload_delta, !.session_uploaded = @ + upload_delta]
        actual_download == Min(download_delta, e.left)
    IN  IF e.left > 0
          THEN [ e |-> [u EXCEPT !.downloaded = @ + actual_download,
                                 !.session_downloaded = @ + actual_download],
                 completed |-> FALSE ]
          ELSE [ e |-> u, completed |-> FALSE ]

\* update_transfer_stats as it would be if it signalled completion whenever
\* nothing is left.
update_transfer_stats_signalling_whenever_complete(e, upload_delta, download_delta) ==
    LET u == [e EXCEPT !.uploaded = @ + upload_delta, !.session_uploaded = @ + upload_delta]
        actual_download == Min(download_delta, e.left)
    IN  IF e.left > 0
          THEN [ e |-> [u EXCEPT !.downloaded = @ + actual_download,
                                 !.session_downloaded = @ + actual_download,
                                 !.left = saturating_sub(@, actual_download)],
                 completed |-> saturating_sub(e.left, actual_download) = 0 ]
          ELSE [ e |-> u, completed |-> TRUE ]

\* RatioFaker::update_transfer_stats: the engine, and whether the torrent
\* just completed.
update_transfer_stats(e, upload_delta, download_delta) ==
    LET u == [e EXCEPT !.uploaded = @ + upload_delta, !.session_uploaded = @ + upload_delta]
        actual_download == Min(download_delta, e.left)
    IN  IF e.left > 0
          THEN [ e |-> [u EXCEPT !.downloaded = @ + actual_download,
                                 !.session_downloaded = @ + actual_download,
                                 !.left = saturating_sub(@, actual_download)],
                 completed |-> saturating_sub(e.left, actual_download) = 0 ]
          ELSE [ e |-> u, completed |-> FALSE ]

\* RatioFaker::update_derived_stats
update_derived_stats(e, now) ==
    [e EXCEPT !.ratio = IF e.config.total_size > 0
                          THEN (e.uploaded * 1000) \div e.config.total_size ELSE 0,
              !.session_ratio = IF e.config.total_size > 0
                                  THEN (e.session_uploaded * 1000) \div e.config.total_size
                                  ELSE 0,
              !.elapsed_time = now - e.start_time]

\* check_stop_conditions as it would be if it compared the cumulative totals.
check_stop_conditions_cumulative(e) ==
    LET c == e.config
    IN  \/ c.stop_at_ratio # None /\ e.ratio >= c.stop_at_ratio - RATIO_EPSILON_MILLI
        \/ c.stop_at_uploaded # None /\ e.uploaded >= c.stop_at_uploaded
        \/ c.stop_at_downloaded # None /\ e.downloaded >= c.stop_at_downloaded
        \/ c.stop_at_seed_time # None /\ e.elapsed_time >= c.stop_at_seed_time

\* RatioFaker::check_stop_conditions
check_stop_conditions(e) ==
    LET c == e.config
    IN  \/ c.stop_at_ratio # None /\ e.session_ratio >= c.stop_at_ratio - RATIO_EPSILON_MILLI
        \/ c.stop_at_uploaded # None /\ e.session_uploaded >= c.stop_at_uploaded
        \/ c.stop_at_downloaded # None /\ e.session_downloaded >= c.stop_at_downloaded
        \/ c.stop_at_seed_time # None /\ e.elapsed_time >= c.stop_at_seed_time

\* The end of a tick as it would be if update_stats_only() checked for the
\* periodic announce as update() does.
tick_finish_with_periodic_announce(e) ==
    LET d == update_derived_stats(e, e.now0)
    IN  IF check_stop_conditions(d)
          THEN stop_body(d)
          ELSE IF d.next_announce # None /\ d.now0 >= d.next_announce
                 THEN announce(d, "periodic_announce")
                 ELSE returns(d, TRUE)

\* The end of update() and update_stats_only(), from the derived statistics
\* on: the stop conditions, then (update() only) the periodic announce.
tick_finish(e) ==
    LET d == update_derived_stats(e, e.now0)
    IN  IF check_stop_conditions(d)
          THEN stop_body(d)
          ELSE IF d.op = "update" /\ d.next_announce # None /\ d.now0 >= d.next_announce
                 THEN announce(d, "periodic_announce")
                 ELSE returns(d, TRUE)

\* The rates and transfer amounts of update() and update_stats_only(), up to
\* the "completed" announce.
tick_transfer(e, pu, pd) ==
    LET r == calculate_current_rates(e, pu, pd)
        s == update_rate_stats(r.e, r.upload_rate, r.download_rate)
        upload_delta == (r.upload_rate * KB * e.elapsed0) \div 10000
        download_delta == (r.download_rate * KB * e.elapsed0) \div 10000
        x == update_transfer_stats(s, upload_delta, download_delta)
    IN  IF x.completed
          THEN announce(x.e, "completed_announce")
          ELSE tick_finish(x.e)

\* RatioFaker::update, called at time t, up to its first tracker call.
update(e, t, pu, pd) ==
    tick_transfer([e EXCEPT !.op = "update", !.now0 = t,
                            !.elapsed0 = t - e.last_update, !.last_update = t], pu, pd)

\* RatioFaker::update_stats_only, called at time t, up to its first tracker call.
update_stats_only(e, t, pu, pd) ==
    LET b == [e EXCEPT !.op = "update_stats_only", !.now0 = t,
                       !.elapsed0 = t - e.last_update, !.last_update = t]
    IN  IF e.scrape_supported /\ t - e.last_scrape >= e.config.scrape_interval
          THEN announce(b, "scrape")
          ELSE tick_transfer(b, pu, pd)

\* RatioFaker::on_completed from the answer to its announce.
on_completed_reply(e, r) ==
    IF r.ok THEN [e EXCEPT !.seeders = r.complete, !.leechers = r.incomplete,
                           !.announce_count = @ + 1]
            ELSE e

\* periodic_announce with update()'s retry as it would be if a failure were
\* retried after the tracker's interval.
periodic_announce_reply_after_interval(e, t, r) ==
    IF r.ok THEN [e EXCEPT !.announce_interval = r.interval,
                           !.seeders = r.complete, !.leechers = r.incomplete,
                           !.next_announce = t + r.interval,
                           !.announce_count = @ + 1]
            ELSE [e EXCEPT !.next_announce = t + e.announce_interval]

\* RatioFaker::periodic_announce from its answer at time t, with the retry
\* update() schedules when it failed.
periodic_announce_reply(e, t, r) ==
    IF r.ok THEN [e EXCEPT !.announce_interval = r.interval,
                           !.seeders = r.complete, !.leechers = r.incomplete,
                           !.next_announce = t + r.interval,
                           !.announce_count = @ + 1]
            ELSE [e EXCEPT !.next_announce = t + RETRY_SECS]

\* The scrape's answer as it would be if a failed scrape left scraping
\* enabled.
scrape_reply_keeping_support(e, r) ==
    IF r.ok THEN [e EXCEPT !.seeders = r.complete, !.leechers = r.incomplete,
                           !.last_scrape = e.now0]
            ELSE e

\* The scrape of update_stats_only from its answer.
scrape_reply(e, r) ==
    IF r.ok THEN [e EXCEPT !.seeders = r.complete, !.leechers = r.incomplete,
                           !.last_scrape = e.now0]
            ELSE [e EXCEPT !.scrape_supported = FALSE]

\* The operation in progress continues from the tracker's answer r, received
\* at time t, up to its next tracker call or its return.
reply(e, t, r, pu, pd) ==
    CASE e.pc = "start_announce" -> start_reply(e, t, r)
      [] e.pc = "stop_announce" -> stop_reply(e, r)
      [] e.pc = "completed_announce" -> tick_finish(on_completed_reply(e, r))
      [] e.pc = "periodic_announce" -> returns(periodic_announce_reply(e, t, r), TRUE)
      [] e.pc = "scrape" -> tick_transfer(scrape_reply(e, r), pu, pd)

\* ------------------------------------------------------------------- state
\* now: the clock, in seconds.  faker: one engine (the engine alone, under
\* EngineSpec).  The server's state (ServerSpec): instances is the registry
\* map, fakers the engine objects behind the Arc handles and handle_id the
\* instance each was created for, engine_lock the holder of each engine's
\* write lock, map_lock the holders of the registry map's lock, tasks the
\* foreground requests in progress, requests the number of requests received
\* and sched the scheduler task.  history: the rolling histories of one
\* engine's statistics (HistorySpec).  peer: the client identity
\* (PeerIdSpec).  sent: what the announces attempted by the engine so far
\* amount to (AnnounceSpec).
VARIABLES now, faker, instances, fakers, handle_id, engine_lock, map_lock, tasks,
          requests, sched, history, peer, sent, disk, next_instance_id

svars == <<instances, fakers, handle_id, engine_lock, map_lock, tasks, requests, sched>>
vars == <<now, faker, instances, fakers, handle_id, engine_lock, map_lock, tasks,
          requests, sched, history, peer, sent, disk, next_instance_id>>

\* The variables of the histories, of the client identity, of the log of
\* announces (AnnounceSpec), of the data directory and of the desktop's id
\* counter, which the engine's and the server's operations leave alone.
hvars == <<history, peer, sent, disk, next_instance_id>>

\* No announce has been attempted.  first: the event of the first announce
\* attempted; open: a "started" has been attempted and no "stopped" since.
NothingSent == [first |-> "nothing", open |-> FALSE]

\* The data directory before anything is saved: neither state.json nor
\* state.json.tmp nor state.json.corrupted exists.  A path names a file (0:
\* no such file), data is each file's content and calls counts the calls of
\* Persistence::save.
Files == 1..MaxFiles
NoDisk ==
    [state |-> 0, tmp |-> 0, corrupted |-> 0, data |-> [f \in Files |-> <<>>],
     calls |-> 0]

\* No client identity has been chosen.
NoPeer == [client_type |-> "none", version |-> <<>>, peer_id |-> <<>>]

\* FakerStats' four histories as RatioFaker::new leaves them.
NoHistory ==
    [ history_timestamps |-> <<>>, upload_rate_history |-> <<>>,
      download_rate_history |-> <<>>, ratio_history |-> <<>> ]

\* The replies the tracker may give engine e: it answers an engine
\* successfully at most MaxAnnounces times.
Replies(e) ==
    IF e.announce_count < MaxAnnounces THEN TrackerReplies ELSE {TrackerError}

\* The random factors a tick of engine e may draw.
Percents(e) ==
    IF e.config.randomize_rates THEN RandomPercents(e.config.random_range_percent) ELSE {100}

\* ------------------------------------------------- the engine on its own
\* One engine, its operations called one at a time by a caller that holds it
\* exclusively (&mut self), the tracker answering each call with any reply,
\* and time passing at any point, also while a tracker call is in flight.
EngineInit ==
    /\ now = 0
    /\ \E c \in Configs : faker = newAt(c, 0)
    /\ instances = <<>> /\ fakers = <<>> /\ handle_id = <<>>
    /\ engine_lock = <<>> /\ map_lock = [w |-> None, r |-> {}]
    /\ tasks = <<>> /\ requests = 0 /\ sched = [pc |-> "off"]
    /\ history = NoHistory
    /\ peer = NoPeer
    /\ sent = NothingSent
    /\ disk = NoDisk
    /\ next_instance_id = 1

Callable == faker.pc = "none"

CallStart ==
    /\ Callable
    /\ faker' = start(faker, now)
    /\ UNCHANGED <<now, svars, hvars>>

CallStop ==
    /\ Callable
    /\ faker' = stop(faker)
    /\ UNCHANGED <<now, svars, hvars>>

CallPause ==
    /\ Callable
    /\ faker' = pause(faker)
    /\ UNCHANGED <<now, svars, hvars>>

CallResume ==
    /\ Callable
    /\ faker' = resume(faker, now)
    /\ UNCHANGED <<now, svars, hvars>>

CallUpdate ==
    /\ Callable
    /\ \E pu \in Percents(faker), pd \in Percents(faker) :
          faker' = update(faker, now, pu, pd)
    /\ UNCHANGED <<now, svars, hvars>>

CallUpdateStatsOnly ==
    /\ Callable
    /\ \E pu \in Percents(faker), pd \in Percents(faker) :
          faker' = update_stats_only(faker, now, pu, pd)
    /\ UNCHANGED <<now, svars, hvars>>

TrackerReply ==
    /\ faker.pc # "none"
    /\ \E r \in Replies(faker), pu \in Percents(faker), pd \in Percents(faker) :
          faker' = reply(faker, now, r, pu, pd)
    /\ UNCHANGED <<now, svars, hvars>>

Advance ==
    /\ now < MaxTicks * UPDATE_INTERVAL
    /\ now' = now + UPDATE_INTERVAL
    /\ UNCHANGED <<faker, svars, hvars>>

EngineNext ==
    \/ CallStart
    \/ CallStop
    \/ CallPause
    \/ CallResume
    \/ CallUpdate
    \/ CallUpdateStatsOnly
    \/ TrackerReply
    \/ Advance

EngineSpec == EngineInit /\ [][EngineNext]_vars

\* ------------------------------------------------- claims on the engine
Returned(op) == faker.pc = "none" /\ faker.ret.op = op

\* C1: when start() returns it reports success and both copies of the
\* lifecycle state are Running, whatever the tracker answered to "started".
C1_StartEndsRunning ==
    Returned("start") =>
        faker.ret.ok /\ faker.state = "Running" /\ faker.stats_state = "Running"

\* start() has returned although its announce failed: no announce has
\* completed and the retry is scheduled.
C1_FailedStartReturned ==
    /\ Returned("start")
    /\ faker.announce_count = 0
    /\ faker.next_announce = faker.start_time + RETRY_SECS

\* C2: a stop() called right after a stop() has returned issues no announce,
\* changes neither state nor statistics, and returns success.
C2_SecondStopIsNoOp ==
    [][ ( /\ Returned("stop")
          /\ faker' # faker
          /\ faker'.op = "stop" \/ (faker'.pc = "none" /\ faker'.ret.op = "stop") )
        => faker' = [faker EXCEPT !.ret = [op |-> "stop", ok |-> TRUE, skipped |-> TRUE]]
      ]_vars

\* A second stop() has returned on an engine that had been started and
\* stopped with the tracker answering.
C2_SecondStopReturned ==
    /\ Returned("stop")
    /\ faker.ret.skipped
    /\ faker.announce_count = 2
    /\ faker.next_announce # None

\* C3: when a stop() that found the engine not Stopped returns, it reports
\* success, both copies of the state are Stopped and the idling flag and
\* reason are cleared, whatever the tracker answered to "stopped".
C3_StopEndsStopped ==
    (Returned("stop") /\ ~faker.ret.skipped) =>
        /\ faker.ret.ok
        /\ faker.state = "Stopped" /\ faker.stats_state = "Stopped"
        /\ ~faker.is_idling /\ faker.idling_reason = "None"

\* stop() has returned on a started engine whose "started" and "stopped"
\* announces both failed.
C3_FailedStopReturned ==
    /\ Returned("stop")
    /\ ~faker.ret.skipped
    /\ faker.next_announce # None
    /\ faker.announce_count = 0

\* A session-scoped stop target of engine e is met (the session ratio is
\* session_uploaded / total_size, and 0 for an empty torrent).
SessionTargetMet(e) ==
    \/ /\ e.config.stop_at_uploaded # None
       /\ e.session_uploaded >= e.config.stop_at_uploaded
    \/ /\ e.config.stop_at_downloaded # None
       /\ e.session_downloaded >= e.config.stop_at_downloaded
    \/ /\ e.config.stop_at_ratio # None
       /\ IF e.config.total_size > 0
            THEN e.session_uploaded * 1000 >=
                    (e.config.stop_at_ratio - RATIO_EPSILON_MILLI) * e.config.total_size
            ELSE 0 >= e.config.stop_at_ratio - RATIO_EPSILON_MILLI
    \/ /\ e.config.stop_at_seed_time # None
       /\ e.elapsed_time >= e.config.stop_at_seed_time

IsTick(op) == op \in {"update", "update_stats_only"}

\* C5: a tick that leaves a session-scoped target met returns with the
\* engine Stopped, and a tick stops the engine only when a session-scoped
\* target is met (a cumulative total above a target stops nothing).
C5_StopOnSessionTargetsOnly ==
    /\ [] ( (faker.pc = "none" /\ IsTick(faker.ret.op) /\ SessionTargetMet(faker))
              => faker.state = "Stopped" )
    /\ [][ (faker.pc # "stop_announce" /\ faker'.pc = "stop_announce" /\ IsTick(faker'.op))
              => SessionTargetMet(faker') ]_vars

\* A tick on a Running engine has met the upload target and stopped it.
C5_TickStoppedOnUploadTarget ==
    /\ Returned("update")
    /\ ~faker.ret.skipped
    /\ faker.state = "Stopped"
    /\ faker.config.stop_at_uploaded # None
    /\ faker.session_uploaded >= faker.config.stop_at_uploaded

\* C10: left is never negative and never above the torrent size.
C10_LeftWithinSize ==
    0 <= faker.left /\ faker.left <= faker.config.total_size

\* A tick whose download delta was above the remaining left has completed
\* the torrent.
C10_DeltaWasCapped ==
    /\ faker.left = 0
    /\ faker.session_downloaded > 0
    /\ faker.session_downloaded < 2 * faker.config.download_rate * KB * UPDATE_INTERVAL
    /\ faker.session_downloaded > faker.config.download_rate * KB * UPDATE_INTERVAL

\* C11: the cumulative downloaded total never exceeds the torrent size.
C11_DownloadedWithinSize ==
    faker.downloaded <= faker.config.total_size

\* C12: left plus the bytes downloaded in the current run is at most the
\* torrent size.
C12_LeftPlusSessionWithinSize ==
    faker.left + faker.session_downloaded <= faker.config.total_size

\* A leecher constructed at 0 percent has downloaded a part of the torrent:
\* what is left and what the run has downloaded add up to the torrent size.
C12_PartlyDownloaded ==
    /\ faker.left > 0
    /\ faker.session_downloaded > 0
    /\ faker.left + faker.session_downloaded = faker.config.total_size

\* C13: whenever the statistics can be observed (no operation in progress),
\* ratio is the cumulative uploaded total divided by the torrent size, and 0
\* for an empty torrent.
C13_RatioIsUploadedOverSize ==
    faker.pc = "none" =>
        faker.ratio = IF faker.config.total_size > 0
                        THEN (faker.uploaded * 1000) \div faker.config.total_size
                        ELSE 0

\* Both idle preconditions hold for engine e.
BothIdlePreconditions(e) ==
    /\ e.config.idle_when_no_leechers /\ e.config.idle_when_no_seeders
    /\ e.leechers = 0 /\ e.seeders = 0
    /\ e.left > 0
    /\ e.announce_count > 0

\* C14: the rates a tick computes from any reachable engine report an idling
\* reason exactly when the engine idles, and when both idle preconditions
\* hold the reason is "no_leechers" and both rates are 0.
C14_NoLeechersWinsTies ==
    \A pu \in Percents(faker), pd \in Percents(faker) :
        LET r == calculate_current_rates(faker, pu, pd)
        IN  /\ r.e.idling_reason \in {"None", "no_leechers", "no_seeders"}
            /\ r.e.is_idling <=> r.e.idling_reason # "None"
            /\ BothIdlePreconditions(faker) =>
                  /\ r.e.idling_reason = "no_leechers"
                  /\ r.upload_rate = 0 /\ r.download_rate = 0

\* A tick has returned on an engine for which both idle preconditions hold:
\* it idles for "no_leechers" at rates 0.
C14_TickIdledOnBoth ==
    /\ Returned("update")
    /\ BothIdlePreconditions(faker)
    /\ faker.is_idling /\ faker.idling_reason = "no_leechers"
    /\ faker.current_upload_rate = 0 /\ faker.current_download_rate = 0
    /\ faker.last_update > faker.start_time

\* A step in which a call of update() or update_stats_only() begins (and, when
\* it makes no tracker call, also returns).
TickBegins ==
    /\ faker.pc = "none"
    /\ \/ IsTick(faker'.op)
       \/ faker'.pc = "none" /\ IsTick(faker'.ret.op) /\ faker' # faker

\* C18: while the engine is Paused or Stopped, a call of a tick (update or
\* update_stats_only) changes none of uploaded, downloaded and left and sends
\* no periodic or "completed" announce.
C18_NoTransferUnlessRunning ==
    [][ (TickBegins /\ faker.state \in {"Paused", "Stopped"})
          => /\ faker'.uploaded = faker.uploaded
             /\ faker'.downloaded = faker.downloaded
             /\ faker'.left = faker.left
             /\ faker'.pc \notin {"periodic_announce", "completed_announce"} ]_vars

\* A step in which the answer to the announce awaited at pcname arrives.
Answered(pcname) == faker.pc = pcname /\ faker'.pc # pcname

\* C21: when the "started" or the periodic announce fails, the next announce
\* is scheduled 30 seconds after the failure; when it succeeds, one returned
\* interval after the answer; and update() alone sends a periodic announce,
\* and only when the scheduled time has come.
C21_RetryAfterThirtySeconds ==
    [][ /\ (Answered("start_announce") \/ Answered("periodic_announce"))
           => IF faker'.announce_count = faker.announce_count
                THEN faker'.next_announce = now + RETRY_SECS
                ELSE /\ faker'.announce_count = faker.announce_count + 1
                     /\ \E r \in TrackerReplies :
                           /\ r.ok
                           /\ faker'.announce_interval = r.interval
                           /\ faker'.next_announce = now + r.interval
        /\ (faker.pc # "periodic_announce" /\ faker'.pc = "periodic_announce")
           => /\ faker'.op = "update"
              /\ faker.next_announce # None
              /\ now >= faker.next_announce ]_vars

\* A periodic announce was sent when due and failed: the retry is scheduled
\* 30 seconds later although the tracker's interval is 5 seconds.
C21_PeriodicAnnounceFailed ==
    /\ Returned("update")
    /\ now > 0
    /\ faker.announce_count = 1
    /\ faker.announce_interval < RETRY_SECS
    /\ faker.next_announce = now + RETRY_SECS

\* C22: while the "started" announce is in flight the engine's state (and
\* the copy in its statistics) is Starting, and while the "stopped" announce
\* is in flight it is Stopping.
C22_TransitionalStateDuringAnnounce ==
    /\ faker.pc = "start_announce"
          => faker.state = "Starting" /\ faker.stats_state = "Starting"
    /\ faker.pc = "stop_announce"
          => faker.state = "Stopping" /\ faker.stats_state = "Stopping"

\* The "stopped" announce of a stop() called on a Running engine that has
\* announced before is in flight.
C22_StopAnnounceInFlight ==
    /\ faker.pc = "stop_announce"
    /\ faker.op = "stop"
    /\ faker.state = "Stopping"
    /\ faker.announce_count > 0

\* C25: the "completed" announce is sent in the step of a tick that brings
\* left from a positive value to 0, and every such step sends it; left never
\* grows, so that this happens at most once; the announce leaves the
\* lifecycle state alone (after it only a met stop condition changes the
\* state), and whatever its answer the tick goes on and returns Ok.
C25_CompletedOnceOnCompletion ==
    [][ /\ (faker.pc # "completed_announce" /\ faker'.pc = "completed_announce")
           => /\ faker.left > 0 /\ faker'.left = 0
              /\ IsTick(faker'.op)
              /\ faker'.state = faker.state
        /\ (faker.left > 0 /\ faker'.left = 0) => faker'.pc = "completed_announce"
        /\ faker'.left <= faker.left
        /\ Answered("completed_announce")
           => /\ faker'.left = 0
              /\ \/ faker'.state = faker.state
                 \/ faker'.pc = "stop_announce" /\ SessionTargetMet(faker')
              /\ faker'.pc \in {"none", "stop_announce", "periodic_announce"}
              /\ faker'.pc = "none" => IsTick(faker'.ret.op) /\ faker'.ret.ok ]_vars

\* A tick completed the torrent, no announce has ever succeeded (the
\* "completed" announce failed too), and the tick returned Ok with the
\* engine still Running.
C25_CompletedAnnounceFailed ==
    /\ Returned("update")
    /\ faker.ret.ok
    /\ faker.left = 0
    /\ faker.session_downloaded > 0
    /\ faker.announce_count = 0
    /\ faker.state = "Running"

\* A step of update_stats_only(): its call, or the tracker's answer to a call
\* it awaits.
StatsOnlyStep ==
    /\ faker' # faker
    /\ \/ faker.op = "update_stats_only"
       \/ faker'.op = "update_stats_only"
       \/ faker.pc = "none" /\ faker'.pc = "none" /\ faker'.ret.op = "update_stats_only"

\* C30: update_stats_only() never sends the periodic announce and leaves the
\* time of the next announce as it was, also when that time has passed.
C30_StatsOnlyNeverAnnounces ==
    [][ StatsOnlyStep =>
          /\ faker'.pc # "periodic_announce"
          /\ faker'.next_announce = faker.next_announce
          /\ faker'.announce_interval = faker.announce_interval ]_vars

\* update_stats_only() has returned on a Running engine whose next announce
\* was due when it was called.
C30_ReturnedWithAnnounceDue ==
    /\ Returned("update_stats_only")
    /\ faker.ret.ok
    /\ faker.state = "Running"
    /\ faker.next_announce # None
    /\ faker.last_update >= faker.next_announce
    /\ faker.last_update > faker.start_time

\* C31: a scrape is issued only by update_stats_only(), only when the poll
\* interval has elapsed since the last scrape and scraping has not been
\* disabled; a failed scrape disables scraping, and scraping once disabled
\* stays disabled.
C31_ScrapeOnlyWhileSupported ==
    [][ /\ (faker.pc # "scrape" /\ faker'.pc = "scrape") =>
              /\ faker.pc = "none"
              /\ faker'.op = "update_stats_only"
              /\ faker.scrape_supported
              /\ now - faker.last_scrape >= faker.config.scrape_interval
        /\ Answered("scrape") =>
              \/ faker'.scrape_supported /\ faker'.last_scrape = faker.now0
              \/ ~faker'.scrape_supported /\ faker'.last_scrape = faker.last_scrape
        /\ ~faker.scrape_supported =>
              ~faker'.scrape_supported /\ faker'.pc # "scrape" ]_vars

\* update_stats_only() has returned without a scrape although the poll
\* interval had elapsed: an earlier scrape had failed.
C31_NoScrapeAfterFailure ==
    /\ Returned("update_stats_only")
    /\ ~faker.scrape_supported
    /\ faker.last_update - faker.last_scrape >= 2 * faker.config.scrape_interval

\* C32: the rates a tick computes from any reachable engine: while no
\* announce has completed the engine is not marked idling and no rate is 0
\* for lack of peers (the download rate is 0 only when nothing is left);
\* with idle_when_no_leechers on, no leechers and an announce completed, the
\* upload rate is 0 and the engine idles for "no_leechers".
C32_NoIdlingBeforeFirstAnnounce ==
    \A pu \in Percents(faker), pd \in Percents(faker) :
        LET r == calculate_current_rates(faker, pu, pd)
        IN  /\ faker.announce_count = 0 =>
                  /\ ~r.e.is_idling /\ r.e.idling_reason = "None"
                  /\ r.upload_rate > 0
                  /\ r.download_rate = 0 <=> faker.left = 0
            /\ ( /\ faker.config.idle_when_no_leechers
                 /\ faker.leechers = 0
                 /\ faker.announce_count >= 1 ) =>
                  /\ r.upload_rate = 0
                  /\ r.e.is_idling /\ r.e.idling_reason = "no_leechers"

\* A tick has returned on an engine with both idle toggles on, no peers
\* known and no announce completed (its start failed): it does not idle and
\* has transferred in both directions.
C32_TickedWithoutAnnounce ==
    /\ Returned("update")
    /\ faker.state = "Running"
    /\ faker.config.idle_when_no_leechers /\ faker.config.idle_when_no_seeders
    /\ faker.leechers = 0 /\ faker.seeders = 0
    /\ faker.announce_count = 0
    /\ ~faker.is_idling
    /\ faker.current_upload_rate > 0 /\ faker.current_download_rate > 0
    /\ faker.session_uploaded > 0 /\ faker.session_downloaded > 0

\* A step in which resume() is called and returns.
ResumeReturns ==
    /\ faker.pc = "none" /\ faker'.pc = "none"
    /\ faker'.ret.op = "resume"
    /\ faker' # faker

\* C33: resume() leaves the engine Running with its last-update instant at
\* the time of the call, and the update() called next adds the bytes of the
\* time since the resume only: the rate it computes times the seconds since
\* the last-update instant resume() set.
C33_ResumeResetsLastUpdate ==
    [][ /\ ResumeReturns =>
              /\ faker'.ret.ok
              /\ faker'.state = "Running" /\ faker'.stats_state = "Running"
              /\ faker'.last_update = now
        /\ ( /\ faker.pc = "none" /\ faker.ret.op = "resume"
             /\ faker' # faker
             /\ faker'.op = "update" \/ (faker'.pc = "none" /\ faker'.ret.op = "update") ) =>
              /\ faker'.uploaded =
                    faker.uploaded
                      + (faker'.current_upload_rate * KB * (now - faker.last_update)) \div 10000
              /\ faker'.left =
                    IF faker.left > 0
                      THEN saturating_sub(faker.left,
                              (faker'.current_download_rate * KB * (now - faker.last_update))
                                 \div 10000)
                      ELSE 0 ]_vars

\* An engine that has never idled (no announce has completed) has been
\* running for longer than the time its uploads account for: it was resumed
\* after a time without ticks, and the tick that followed has added the
\* bytes of the time since the resume only.
C33_TickedAfterResume ==
    /\ Returned("update")
    /\ faker.state = "Running"
    /\ faker.announce_count = 0 /\ ~faker.config.randomize_rates
    /\ faker.session_uploaded = faker.config.upload_rate * KB * UPDATE_INTERVAL
    /\ faker.last_update - faker.start_time = 2 * UPDATE_INTERVAL

\* C40: whenever no operation of the engine is in progress, the engine's own
\* lifecycle state and the one in its statistics are equal: what stop()'s
\* guard reads is what the scheduler's check of the statistics reads.
C40_StateCopiesAgree ==
    faker.pc = "none" =>
       /\ faker.state = faker.stats_state
       /\ (faker.state = "Stopped") = (faker.stats_state = "Stopped")
       /\ (faker.stats_state = "Running") = (faker.state = "Running")

\* pause() has returned and both copies say Paused.
C40_PausedInBothCopies ==
    Returned("pause") /\ faker.state = "Paused" /\ faker.stats_state = "Paused"

\* ------------------------------------------------- the engine's announces
\* The engine on its own as under EngineSpec, with the log of the announces
\* it attempts.

\* The event of the announce awaited at pcname: TrackerEvent::Started,
\* Stopped, Completed, and None for the periodic announce.  The scrape of
\* update_stats_only is not an announce.
event(pcname) ==
    CASE pcname = "start_announce" -> "started"
      [] pcname = "stop_announce" -> "stopped"
      [] pcname = "completed_announce" -> "completed"
      [] pcname = "periodic_announce" -> "none"
      [] OTHER -> "nothing"

\* The step from engine e to engine e2 attempts an announce: e2 awaits a
\* tracker call that e did not.
attempts(e, e2) == IF e2.pc # e.pc THEN event(e2.pc) ELSE "nothing"

\* The log after the step from e to e2.
logged(s, e, e2) ==
    LET ev == attempts(e, e2)
    IN  IF ev = "nothing"
          THEN s
          ELSE [first |-> IF s.first = "nothing" THEN ev ELSE s.first,
                open |-> CASE ev = "started" -> TRUE
                           [] ev = "stopped" -> FALSE
                           [] OTHER -> s.open]

\* The engine becomes e2 by a call or by the tracker's answer.
Becomes(e2) ==
    /\ faker' = e2
    /\ sent' = logged(sent, faker, e2)
    /\ UNCHANGED <<now, svars, history, peer, disk, next_instance_id>>

LoggedStart == Callable /\ Becomes(start(faker, now))

LoggedStop == Callable /\ Becomes(stop(faker))

LoggedPause == Callable /\ Becomes(pause(faker))

LoggedResume == Callable /\ Becomes(resume(faker, now))

LoggedUpdate ==
    /\ Callable
    /\ \E pu \in Percents(faker), pd \in Percents(faker) :
          Becomes(update(faker, now, pu, pd))

LoggedUpdateStatsOnly ==
    /\ Callable
    /\ \E pu \in Percents(faker), pd \in Percents(faker) :
          Becomes(update_stats_only(faker, now, pu, pd))

LoggedReply ==
    /\ faker.pc # "none"
    /\ \E r \in Replies(faker), pu \in Percents(faker), pd \in Percents(faker) :
          Becomes(reply(faker, now, r, pu, pd))

AnnounceNext ==
    \/ LoggedStart
    \/ LoggedStop
    \/ LoggedPause
    \/ LoggedResume
    \/ LoggedUpdate
    \/ LoggedUpdateStatsOnly
    \/ LoggedReply
    \/ Advance

AnnounceSpec == EngineInit /\ [][AnnounceNext]_vars

\* C29: the first announce an engine attempts is "started", and a "stopped"
\* announce is attempted only while a "started" has been attempted with no
\* "stopped" attempted since.
C29_AnnouncesWellFormed ==
    /\ [](sent.first \in {"nothing", "started"})
    /\ [][attempts(faker, faker') = "stopped" => sent.open]_vars

\* ----------------------------------------------------- the histories
\* The four rolling histories of FakerStats, which the engine record above
\* leaves out: every tick appends one sample to each, update_rate_stats the
\* timestamp and the two rates, update_derived_stats the ratio.  One engine
\* of BaseConfig's torrent ticks every UPDATE_INTERVAL seconds at a rate
\* chosen at the start.
MaxSamples == 64
HISTORY_MAX == 60

\* add_to_history as it would be if it dropped the newest entry.
add_to_history_dropping_newest(h, value, max_len) ==
    IF Len(h) + 1 > max_len THEN SubSeq(Append(h, value), 1, max_len) ELSE Append(h, value)

\* RatioFaker::add_to_history and add_to_history_u64
add_to_history(h, value, max_len) ==
    IF Len(h) + 1 > max_len THEN Tail(Append(h, value)) ELSE Append(h, value)

\* The timestamp in milliseconds, the cumulative upload and the ratio sample
\* of tick k for an upload rate in KB/s.
TimestampAt(k) == k * UPDATE_INTERVAL * 1000
UploadedAt(k, rate) == k * rate * KB * UPDATE_INTERVAL
RatioAt(k, rate) == (UploadedAt(k, rate) * 1000) \div BaseConfig.total_size

HistoryInit ==
    /\ now = 0
    /\ faker = newAt(BaseConfig, 0)
    /\ instances = <<>> /\ fakers = <<>> /\ handle_id = <<>>
    /\ engine_lock = <<>> /\ map_lock = [w |-> None, r |-> {}]
    /\ tasks = <<>> /\ requests = 0 /\ sched = [pc |-> "off"]
    /\ \E up \in {1, 2}, down \in {0, 1} :
          history = [ ticks |-> 0, upload_rate |-> up, download_rate |-> down,
                      history_timestamps |-> <<>>, upload_rate_history |-> <<>>,
                      download_rate_history |-> <<>>, ratio_history |-> <<>> ]
    /\ peer = NoPeer
    /\ sent = NothingSent
    /\ disk = NoDisk
    /\ next_instance_id = 1

\* One tick: update_rate_stats, then update_derived_stats.
HistoryTick ==
    /\ history.ticks < MaxSamples
    /\ LET k == history.ticks + 1
       IN  history' =
             [history EXCEPT
                !.ticks = k,
                !.history_timestamps = add_to_history(@, TimestampAt(k), HISTORY_MAX),
                !.upload_rate_history =
                    add_to_history(@, history.upload_rate * 10000, HISTORY_MAX),
                !.download_rate_history =
                    add_to_history(@, history.download_rate * 10000, HISTORY_MAX),
                !.ratio_history =
                    add_to_history(@, RatioAt(k, history.upload_rate), HISTORY_MAX)]
    /\ UNCHANGED <<now, faker, svars, peer, sent, disk, next_instance_id>>

HistoryNext == HistoryTick

HistorySpec == HistoryInit /\ [][HistoryNext]_vars

\* C15: after any number of ticks each history holds the samples of the last
\* ticks, at most HISTORY_MAX of them, oldest first.
C15_HistoriesKeepLast60 ==
    LET n == history.ticks
        len == Min(n, HISTORY_MAX)
    IN  /\ Len(history.history_timestamps) = len
        /\ Len(history.upload_rate_history) = len
        /\ Len(history.download_rate_history) = len
        /\ Len(history.ratio_history) = len
        /\ len <= HISTORY_MAX
        /\ \A i \in 1..len :
              /\ history.history_timestamps[i] = TimestampAt(n - len + i)
              /\ history.ratio_history[i] = RatioAt(n - len + i, history.upload_rate)
              /\ history.upload_rate_history[i] = history.upload_rate * 10000
              /\ history.download_rate_history[i] = history.download_rate * 10000

\* More ticks than the histories hold have run: the oldest samples are gone.
C15_OldestDropped ==
    /\ history.ticks > HISTORY_MAX + 1
    /\ Len(history.history_timestamps) = HISTORY_MAX
    /\ history.history_timestamps[1] = TimestampAt(history.ticks - HISTORY_MAX + 1)

\* ---------------------------------------------------- the client identity
\* ClientConfig and the peer id (torrent/client.rs).  Strings are sequences
\* of one-character strings.

\* How many of the 62 characters the random generator is let to draw.
MaxDraws == 2

\* The length of the random suffix of a peer id.
SUFFIX_LEN == 12

ClientTypes == {"UTorrent", "QBittorrent", "Transmission", "Deluge", "BitTorrent"}

\* ClientType::info: the default version and the available versions.
info(client_type) ==
    CASE client_type = "UTorrent" ->
           [ default_version |-> <<"3", ".", "5", ".", "5">>,
             versions |-> <<<<"3", ".", "5", ".", "5">>,
                           <<"3", ".", "5", ".", "4">>,
                           <<"3", ".", "5", ".", "3">>,
                           <<"3", ".", "4", ".", "9">>,
                           <<"3", ".", "4", ".", "8">>,
                           <<"2", ".", "2", ".", "1">>>> ]
      [] client_type = "QBittorrent" ->
           [ default_version |-> <<"5", ".", "1", ".", "4">>,
             versions |-> <<<<"5", ".", "1", ".", "4">>,
                           <<"5", ".", "1", ".", "3">>,
                           <<"5", ".", "0", ".", "2">>,
                           <<"4", ".", "6", ".", "7">>,
                           <<"4", ".", "5", ".", "5">>,
                           <<"4", ".", "4", ".", "5">>>> ]
      [] client_type = "Transmission" ->
           [ default_version |-> <<"4", ".", "0", ".", "5">>,
             versions |-> <<<<"4", ".", "0", ".", "5">>,
                           <<"4", ".", "0", ".", "4">>,
                           <<"4", ".", "0", ".", "3">>,
                           <<"3", ".", "0", "0">>,
                           <<"2", ".", "9", "4">>,
                           <<"2", ".", "9", "3">>>> ]
      [] client_type = "Deluge" ->
           [ default_version |-> <<"2", ".", "1", ".", "1">>,
             versions |-> <<<<"2", ".", "1", ".", "1">>,
                           <<"2", ".", "0", ".", "5">>,
                           <<"2", ".", "0", ".", "3">>,
                           <<"1", ".", "3", ".", "1", "5">>>> ]
      [] client_type = "BitTorrent" ->
           [ default_version |-> <<"7", ".", "1", "1", ".", "0">>,
             versions |-> <<<<"7", ".", "1", "1", ".", "0">>,
                           <<"7", ".", "1", "0", ".", "5">>,
                           <<"7", ".", "1", "0", ".", "4">>,
                           <<"7", ".", "1", "0", ".", "3">>,
                           <<"7", ".", "1", "0", ".", "0">>,
                           <<"7", ".", "9", ".", "9">>,
                           <<"7", ".", "9", ".", "8">>,
                           <<"7", ".", "9", ".", "7">>>> ]

\* Option<String>: None is the empty tuple, Some(s) the tuple of s.
Some(s) == <<s>>

\* Option::unwrap_or
unwrap_or(version, default) == IF version = <<>> THEN default ELSE version[1]

\* str::replace(ch, ""): the string without its occurrences of ch.
replace(s, ch) == SelectSeq(s, LAMBDA c : c # ch)

\* str::split(ch), collected: the parts between the occurrences of ch.
RECURSIVE split(_, _)
split(s, ch) ==
    IF \A i \in 1..Len(s) : s[i] # ch
      THEN <<s>>
      ELSE LET k == CHOOSE i \in 1..Len(s) :
                       s[i] = ch /\ \A j \in 1..(i - 1) : s[j] # ch
           IN  <<SubSeq(s, 1, k - 1)>> \o split(SubSeq(s, k + 1, Len(s)), ch)

\* pad_to_width_with_char as it would be if it put the padding in front.
pad_to_width_prepending(s, width, ch) ==
    IF Len(s) >= width
      THEN SubSeq(s, 1, width)
      ELSE [i \in 1..(width - Len(s)) |-> ch] \o s

\* PadString::pad_to_width_with_char: cut to width, or filled up behind.
pad_to_width_with_char(s, width, ch) ==
    IF Len(s) >= width
      THEN SubSeq(s, 1, width)
      ELSE s \o [i \in 1..(width - Len(s)) |-> ch]

\* ClientConfig::utorrent
utorrent(version) ==
    LET v == unwrap_or(version, info("UTorrent").default_version)
        version_code == replace(v, ".")
        padded_version == pad_to_width_with_char(version_code, 4, "0")
    IN  [ client_type |-> "UTorrent", version |-> v,
          peer_id_prefix |-> <<"-", "U", "T">> \o padded_version \o <<"-">> ]

\* ClientConfig::qbittorrent
qbittorrent(version) ==
    LET v == unwrap_or(version, info("QBittorrent").default_version)
        parts == split(v, ".")
        version_code == IF Len(parts) >= 3
                          THEN parts[1] \o parts[2] \o parts[3]
                          ELSE <<"5", "1", "4">>
        padded_version == pad_to_width_with_char(version_code, 4, "0")
    IN  [ client_type |-> "QBittorrent", version |-> v,
          peer_id_prefix |-> <<"-", "q", "B">> \o padded_version \o <<"-">> ]

\* ClientConfig::transmission
transmission(version) ==
    LET v == unwrap_or(version, info("Transmission").default_version)
        parts == split(v, ".")
        version_code == IF Len(parts) >= 2
                          THEN parts[1] \o pad_to_width_with_char(parts[2], 2, "0")
                          ELSE <<"4", "0", "0">>
        padded_version == pad_to_width_with_char(version_code, 4, "0")
    IN  [ client_type |-> "Transmission", version |-> v,
          peer_id_prefix |-> <<"-", "T", "R">> \o padded_version \o <<"-">> ]

\* ClientConfig::deluge
deluge(version) ==
    LET v == unwrap_or(version, info("Deluge").default_version)
        parts == split(v, ".")
        version_code == IF Len(parts) >= 3
                          THEN parts[1] \o parts[2] \o parts[3]
                          ELSE <<"2", "1", "1">>
        padded_version == pad_to_width_with_char(version_code, 4, "0")
    IN  [ client_type |-> "Deluge", version |-> v,
          peer_id_prefix |-> <<"-", "D", "E">> \o padded_version \o <<"-">> ]

\* ClientConfig::bittorrent
bittorrent(version) ==
    LET v == unwrap_or(version, info("BitTorrent").default_version)
        parts == split(v, ".")
        version_code == IF Len(parts) >= 3
                          THEN parts[1] \o parts[2] \o parts[3]
                          ELSE <<"7", "1", "1", "0">>
        padded_version == pad_to_width_with_char(version_code, 4, "0")
    IN  [ client_type |-> "BitTorrent", version |-> v,
          peer_id_prefix |-> <<"-", "B", "T">> \o padded_version \o <<"-">> ]

\* ClientConfig::get
get(client_type, version) ==
    CASE client_type = "UTorrent" -> utorrent(version)
      [] client_type = "QBittorrent" -> qbittorrent(version)
      [] client_type = "Transmission" -> transmission(version)
      [] client_type = "Deluge" -> deluge(version)
      [] client_type = "BitTorrent" -> bittorrent(version)

\* The characters generate_peer_id draws from.
chars ==
    <<"0", "1", "2", "3", "4", "5", "6", "7", "8", "9", "A", "B", "C">>
    \o <<"D", "E", "F", "G", "H", "I", "J", "K", "L", "M", "N", "O", "P">>
    \o <<"Q", "R", "S", "T", "U", "V", "W", "X", "Y", "Z", "a", "b", "c">>
    \o <<"d", "e", "f", "g", "h", "i", "j", "k", "l", "m", "n", "o", "p">>
    \o <<"q", "r", "s", "t", "u", "v", "w", "x", "y", "z">>

\* The indexes into chars that the random generator returns here: the first
\* MaxDraws of a digit, the last character, an upper-case letter and a
\* lower-case letter.
RandomIndexes == {<<0, 61, 10, 36>>[i] : i \in 1..MaxDraws}

\* ClientConfig::generate_peer_id with the random generator's draws.
generate_peer_id(config, draws) ==
    config.peer_id_prefix \o [i \in 1..SUFFIX_LEN |-> chars[draws[i] + 1]]

\* A client type and a version, one of the available ones or none, have
\* been configured.
PeerIdInit ==
    /\ now = 0
    /\ faker = newAt(BaseConfig, 0)
    /\ instances = <<>> /\ fakers = <<>> /\ handle_id = <<>>
    /\ engine_lock = <<>> /\ map_lock = [w |-> None, r |-> {}]
    /\ tasks = <<>> /\ requests = 0 /\ sched = [pc |-> "off"]
    /\ history = NoHistory
    /\ sent = NothingSent
    /\ disk = NoDisk
    /\ next_instance_id = 1
    /\ \E client_type \in ClientTypes :
          \E version \in {<<>>} \cup {Some(info(client_type).versions[i]) :
                                       i \in DOMAIN info(client_type).versions} :
             peer = [client_type |-> client_type, version |-> version, peer_id |-> <<>>]

\* RatioFaker::new: the client configuration is looked up and the
\* session's peer id generated.
GeneratePeerId ==
    /\ peer.peer_id = <<>>
    /\ \E draws \in [1..SUFFIX_LEN -> RandomIndexes] :
          peer' = [peer EXCEPT !.peer_id =
                       generate_peer_id(get(peer.client_type, peer.version), draws)]
    /\ UNCHANGED <<now, faker, svars, history, sent, disk, next_instance_id>>

PeerIdNext == GeneratePeerId

PeerIdSpec == PeerIdInit /\ [][PeerIdNext]_vars

\* The decimal digits and the letters, and the version's digits in order.
Digits == {"0", "1", "2", "3", "4", "5", "6", "7", "8", "9"}
Alphanumerics == {chars[i] : i \in DOMAIN chars}
BrandCode ==
    [ UTorrent |-> <<"U", "T">>, QBittorrent |-> <<"q", "B">>, Transmission |-> <<"T", "R">>,
      Deluge |-> <<"D", "E">>, BitTorrent |-> <<"B", "T">> ]
VersionDigits ==
    SelectSeq(unwrap_or(peer.version, info(peer.client_type).default_version),
              LAMBDA c : c \in Digits)

\* C20: a generated peer id has 20 characters: a hyphen, the brand's two
\* characters, four digits that are leading digits of the version followed
\* by zeros only, a hyphen and 12 alphanumeric characters; for qBittorrent
\* 5.1.4 (also as the default version) it begins with -qB5140-.
C20_PeerIdFormat ==
    peer.peer_id # <<>> =>
       LET id == peer.peer_id
           code == SubSeq(id, 4, 7)
       IN  /\ Len(id) = 20
           /\ id[1] = "-"
           /\ SubSeq(id, 2, 3) = BrandCode[peer.client_type]
           /\ \A i \in 1..4 : code[i] \in Digits
           /\ \E k \in 1..4 :
                 /\ k <= Len(VersionDigits)
                 /\ SubSeq(code, 1, k) = SubSeq(VersionDigits, 1, k)
                 /\ \A i \in (k + 1)..4 : code[i] = "0"
           /\ id[8] = "-"
           /\ \A i \in 9..20 : id[i] \in Alphanumerics
           /\ ( peer.client_type = "QBittorrent"
                /\ peer.version \in {<<>>, Some(<<"5", ".", "1", ".", "4">>)} )
              => SubSeq(id, 1, 8) = <<"-", "q", "B", "5", "1", "4", "0", "-">>

C20_QBittorrent514Generated ==
    /\ peer.client_type = "QBittorrent"
    /\ peer.version = Some(<<"5", ".", "1", ".", "4">>)
    /\ Len(peer.peer_id) = 20
    /\ SubSeq(peer.peer_id, 4, 7) = <<"5", "1", "4", "0">>
    /\ \E i, j \in 9..20 : peer.peer_id[i] # peer.peer_id[j]

\* ------------------------------------------------------------- the server
\* AppState (services/state.rs), the lifecycle operations
\* (services/lifecycle.rs) and the centralized scheduler
\* (services/scheduler.rs).  An operation is cut at its await points: every
\* lock acquisition that may have to wait and every tracker call is a step
\* of its own.  A critical section without an await inside is one step that
\* needs the lock to be available.  The locks are tokio RwLocks; the order
\* in which waiting tasks are served is left open.
NumInstances == 2
MaxFakers == 3
MaxRequests == 3
MaxPasses == 1
SAVE_INTERVAL == 30

Ids == 1..NumInstances
Handles == 1..MaxFakers
Tasks == 1..MaxTasks
Sched == 0

\* The configurations a request may carry, and the one each instance is
\* created with: the first instance has an upload target that one tick of
\* UPDATE_INTERVAL seconds reaches, the others have no stop target.
ServerConfigs == {BaseConfig}
CreatedConfig(id) ==
    IF id = 1
      THEN [BaseConfig EXCEPT !.stop_at_uploaded = BaseConfig.upload_rate * KB * UPDATE_INTERVAL]
      ELSE BaseConfig

NoInstance ==
    [present |-> FALSE, faker |-> 0, config |-> BaseConfig,
     cumulative_uploaded |-> 0, cumulative_downloaded |-> 0]

IdleTask ==
    [op |-> "none", id |-> 0, pc |-> "idle", h |-> 0, up |-> 0, down |-> 0, i |-> 0,
     deadline |-> 0, held |-> NoInstance, deleted |-> FALSE, snap |-> <<>>, fd |-> 0,
     auto_start_ids |-> <<>>]

\* The requests: POST /faker/{id}/start (start_faker), the grid's bulk start
\* (grid_start), stop and delete.
Ops == {"start_faker", "update_config", "grid_start", "stop", "delete"}

\* tokio::sync::RwLock: a read lock is granted while no writer holds the
\* lock, a write lock while nobody holds it.
MapReadable == map_lock.w = None
MapWritable == map_lock.w = None /\ map_lock.r = {}

\* FakerStats::torrent_completion as the fraction num/den of 100 percent.
torrent_completion(e) ==
    IF e.config.total_size > 0
      THEN <<e.config.total_size - e.left, e.config.total_size>>
      ELSE <<1, 1>>

\* The number of engine objects created so far.
nfakers == Cardinality({h \in Handles : handle_id[h] # None})

\* Two instances have been created and nothing has been started; the
\* scheduler has been spawned and sleeps for its first interval.
Created(ntasks) ==
    /\ now = 0
    /\ faker = newAt(BaseConfig, 0)
    /\ instances = [id \in Ids |->
                      [present |-> TRUE, faker |-> id, config |-> CreatedConfig(id),
                       cumulative_uploaded |-> 0, cumulative_downloaded |-> 0]]
    /\ fakers = [h \in Handles |-> newAt(CreatedConfig(h), 0)]
    /\ handle_id = [h \in Handles |-> IF h \in Ids THEN h ELSE None]
    /\ engine_lock = [h \in Handles |-> None]
    /\ map_lock = [w |-> None, r |-> {}]
    /\ tasks = [t \in 1..ntasks |-> IdleTask]
    /\ requests = 0
    /\ history = NoHistory
    /\ peer = NoPeer
    /\ sent = NothingSent
    /\ disk = NoDisk
    /\ next_instance_id = 1
    /\ sched = [pc |-> "sleep", running |-> <<>>, i |-> 1,
                wake |-> UPDATE_INTERVAL, last_save |-> 0,
                skipped |-> {}, updated |-> {}]

ServerInit == Created(MaxTasks)

\* The request of task t returns to its caller.
Finish(t) == tasks' = [tasks EXCEPT ![t] = IdleTask]

\* Where a foreground operation continues once its engine call has returned.
AfterCall(op) ==
    CASE op \in {"start_faker", "grid_start"} -> "start_spawn"
      [] op = "stop" -> "stop_record"
      [] op = "delete" -> "delete_remove"
      [] op = "shutdown" -> "shutdown_all"
      [] op = "load" -> "start_spawn"

\* Process p, which holds the write lock of engine h, awaits the tracker.
Awaiting(p) ==
    IF p = Sched
      THEN sched' = [sched EXCEPT !.pc = "net"] /\ UNCHANGED <<tasks, map_lock>>
      ELSE tasks' = [tasks EXCEPT ![p].pc = "net"] /\ UNCHANGED <<sched, map_lock>>

\* The engine call of process p has returned: the guard is dropped and p goes
\* on, or returns the engine's error to its caller (`?`).  The scheduler
\* logs an error and moves to the next handle of its snapshot;
\* delete_instance ignores the result and drops its read lock on the map;
\* shutdown_all logs an error and goes on with the next instance, and so
\* does the auto-start of load_saved_state.
Resumed(p, ok) ==
    IF p = Sched
      THEN /\ sched' = [sched EXCEPT !.pc = "visit", !.i = @ + 1,
                                     !.updated = @ \cup {sched.running[sched.i]}]
           /\ UNCHANGED <<tasks, map_lock>>
      ELSE /\ tasks' = IF ok \/ tasks[p].op \in {"delete", "shutdown"}
                         THEN [tasks EXCEPT ![p].pc = AfterCall(tasks[p].op)]
                         ELSE IF tasks[p].op = "load"
                           THEN [tasks EXCEPT ![p].pc = "load_start", ![p].h = 0]
                           ELSE [tasks EXCEPT ![p] = IdleTask]
           /\ map_lock' = IF tasks[p].op = "delete"
                            THEN [map_lock EXCEPT !.r = @ \ {p}]
                            ELSE map_lock
           /\ UNCHANGED sched

\* EngineCall with the guard bound to a variable that outlives the call: the
\* engine's lock is still held when the operation goes on to the map.
EngineCall_keeping_guard(p, h, e2) ==
    /\ fakers' = [fakers EXCEPT ![h] = e2]
    /\ engine_lock' = [engine_lock EXCEPT ![h] = p]
    /\ IF e2.pc = "none" THEN Resumed(p, e2.ret.ok) ELSE Awaiting(p)

\* Process p holds the write lock of engine h and its engine call has run up
\* to e2: a tracker call in flight (the lock stays held) or the return.
EngineCall(p, h, e2) ==
    /\ fakers' = [fakers EXCEPT ![h] = e2]
    /\ IF e2.pc = "none"
         THEN engine_lock' = [engine_lock EXCEPT ![h] = None] /\ Resumed(p, e2.ret.ok)
         ELSE engine_lock' = [engine_lock EXCEPT ![h] = p] /\ Awaiting(p)

\* A request arrives, at most MaxRequests of them, and is served by the
\* first free task.  start_faker first asks instance_exists; the instance
\* exists here (a missing one would be created).  The number of engine
\* objects is capped at MaxFakers.
Arrive(t, max_requests) ==
    /\ tasks[t].op = "none"
    /\ \A u \in 1..(t - 1) : tasks[u].op # "none"
    /\ requests < max_requests
    /\ requests' = requests + 1
    /\ \E op \in Ops, id \in Ids :
          /\ op = "start_faker" => MapReadable /\ instances[id].present
          /\ op \in {"start_faker", "update_config"} =>
                nfakers + Cardinality({u \in DOMAIN tasks : tasks[u].pc \in
                                          {"config_map", "config_stats", "config_only"}})
                   < MaxFakers
          /\ tasks' = [tasks EXCEPT ![t] =
                          [IdleTask EXCEPT !.op = op, !.id = id,
                               !.pc = CASE op = "start_faker" -> "config_map"
                                        [] op = "update_config" -> "config_only"
                                        [] op = "grid_start" -> "start_map"
                                        [] op = "stop" -> "stop_map"
                                        [] op = "delete" -> "delete_map"]]
    /\ UNCHANGED <<hvars, now, faker, instances, fakers, handle_id, engine_lock, map_lock, sched>>

Begin(t) == Arrive(t, MaxRequests)

\* update_instance_config: the map's write lock is taken and the instance
\* looked up.
ConfigMap(t) ==
    /\ tasks[t].pc = "config_map"
    /\ MapWritable
    /\ IF instances[tasks[t].id].present
         THEN /\ map_lock' = [map_lock EXCEPT !.w = t]
              /\ tasks' = [tasks EXCEPT ![t].pc = "config_stats",
                                        ![t].h = instances[tasks[t].id].faker]
         ELSE Finish(t) /\ UNCHANGED map_lock
    /\ UNCHANGED <<hvars, now, faker, instances, fakers, handle_id, engine_lock, sched, requests>>

\* update_instance_config, still under the map's write lock: once the
\* engine's read lock is granted, a new engine is built from the request's
\* configuration, the instance's cumulative totals and the old engine's
\* torrent_completion, and replaces the old one.  start_faker then calls
\* start_instance.  When RatioFaker::new fails (its tracker client cannot
\* be built) the error is returned before anything is assigned.
ConfigStats(t) ==
    /\ tasks[t].pc = "config_stats"
    /\ engine_lock[tasks[t].h] = None
    /\ \E c \in ServerConfigs, built \in BOOLEAN :
          LET id == tasks[t].id
              h2 == nfakers + 1
              faker_config ==
                  [c EXCEPT !.initial_uploaded = instances[id].cumulative_uploaded,
                            !.initial_downloaded = instances[id].cumulative_downloaded,
                            !.completion = torrent_completion(fakers[tasks[t].h])]
          IN  IF built
                THEN /\ fakers' = [fakers EXCEPT ![h2] = newAt(faker_config, now)]
                     /\ handle_id' = [handle_id EXCEPT ![h2] = id]
                     /\ instances' = [instances EXCEPT ![id].faker = h2, ![id].config = c]
                     /\ tasks' = [tasks EXCEPT ![t].pc = "start_map", ![t].h = 0]
                ELSE /\ Finish(t)
                     /\ UNCHANGED <<fakers, handle_id, instances>>
    /\ map_lock' = [map_lock EXCEPT !.w = None]
    /\ UNCHANGED <<hvars, now, faker, engine_lock, sched, requests>>

\* update_instance_config_only: once the map's write lock is granted the
\* instance is looked up, its configuration is assigned, and a new engine is
\* built from the request's configuration; when RatioFaker::new fails the
\* error is returned there, otherwise the engine is replaced, the lock
\* dropped and the state saved.
ConfigOnly(t) ==
    /\ tasks[t].pc = "config_only"
    /\ MapWritable
    /\ LET id == tasks[t].id
           h2 == nfakers + 1
       IN  IF ~instances[id].present
             THEN Finish(t) /\ UNCHANGED <<fakers, handle_id, instances>>
             ELSE \E c \in ServerConfigs, built \in BOOLEAN :
                     IF built
                       THEN /\ fakers' = [fakers EXCEPT ![h2] = newAt(c, now)]
                            /\ handle_id' = [handle_id EXCEPT ![h2] = id]
                            /\ instances' = [instances EXCEPT ![id].config = c,
                                                              ![id].faker = h2]
                            /\ tasks' = [tasks EXCEPT ![t].pc = "save"]
                       ELSE /\ instances' = [instances EXCEPT ![id].config = c]
                            /\ Finish(t)
                            /\ UNCHANGED <<fakers, handle_id>>
    /\ UNCHANGED <<hvars, now, faker, engine_lock, map_lock, sched, requests>>

\* start_instance: the handle is cloned under the map's write lock.
StartMap(t) ==
    /\ tasks[t].pc = "start_map"
    /\ MapWritable
    /\ IF instances[tasks[t].id].present
         THEN tasks' = [tasks EXCEPT ![t].pc = "start_lock",
                                     ![t].h = instances[tasks[t].id].faker]
         ELSE Finish(t)
    /\ UNCHANGED <<hvars, now, faker, instances, fakers, handle_id, engine_lock, map_lock, sched, requests>>

\* start_instance: faker.write().await.start().
StartLock(t) ==
    /\ tasks[t].pc = "start_lock"
    /\ engine_lock[tasks[t].h] = None
    /\ EngineCall(t, tasks[t].h, start(fakers[tasks[t].h], now))
    /\ UNCHANGED <<hvars, now, faker, instances, handle_id, requests>>

\* start_instance: the handles of the spawned task are stored under the
\* map's write lock.  The spawned per-instance loop (background_update_loop)
\* is not followed: its update() takes the engine's write lock as a
\* foreground call does.
StartSpawn(t) ==
    /\ tasks[t].pc = "start_spawn"
    /\ MapWritable
    /\ tasks' = [tasks EXCEPT ![t].pc = "save", ![t].h = 0]
    /\ UNCHANGED <<hvars, now, faker, instances, fakers, handle_id, engine_lock, map_lock, sched, requests>>

\* stop_instance: the handle is cloned under the map's write lock.
StopMap(t) ==
    /\ tasks[t].pc = "stop_map"
    /\ MapWritable
    /\ IF instances[tasks[t].id].present
         THEN tasks' = [tasks EXCEPT ![t].pc = "stop_stats",
                                     ![t].h = instances[tasks[t].id].faker]
         ELSE Finish(t)
    /\ UNCHANGED <<hvars, now, faker, instances, fakers, handle_id, engine_lock, map_lock, sched, requests>>

\* stop_instance: faker.read().await.get_stats().
StopStats(t) ==
    /\ tasks[t].pc = "stop_stats"
    /\ engine_lock[tasks[t].h] = None
    /\ tasks' = [tasks EXCEPT ![t].pc = "stop_lock",
                              ![t].up = fakers[tasks[t].h].uploaded,
                              ![t].down = fakers[tasks[t].h].downloaded]
    /\ UNCHANGED <<hvars, now, faker, instances, fakers, handle_id, engine_lock, map_lock, sched, requests>>

\* stop_instance: faker.write().await.stop().
StopLock(t) ==
    /\ tasks[t].pc = "stop_lock"
    /\ engine_lock[tasks[t].h] = None
    /\ EngineCall(t, tasks[t].h, stop(fakers[tasks[t].h]))
    /\ UNCHANGED <<hvars, now, faker, instances, handle_id, requests>>

\* stop_instance: the totals read before the stop are stored in the instance.
StopRecord(t) ==
    /\ tasks[t].pc = "stop_record"
    /\ MapWritable
    /\ instances' = IF instances[tasks[t].id].present
                      THEN [instances EXCEPT ![tasks[t].id].cumulative_uploaded = tasks[t].up,
                                             ![tasks[t].id].cumulative_downloaded = tasks[t].down]
                      ELSE instances
    /\ tasks' = [tasks EXCEPT ![t].pc = "save", ![t].h = 0, ![t].up = 0, ![t].down = 0]
    /\ UNCHANGED <<hvars, now, faker, fakers, handle_id, engine_lock, map_lock, sched, requests>>

\* delete_instance: the map's read lock is taken and kept while the engine
\* is stopped; nothing is stopped if the instance is not there.
DeleteMap(t) ==
    /\ tasks[t].pc = "delete_map"
    /\ MapReadable
    /\ IF instances[tasks[t].id].present
         THEN /\ map_lock' = [map_lock EXCEPT !.r = @ \cup {t}]
              /\ tasks' = [tasks EXCEPT ![t].pc = "delete_lock",
                                        ![t].h = instances[tasks[t].id].faker]
         ELSE /\ tasks' = [tasks EXCEPT ![t].pc = "delete_remove"]
              /\ UNCHANGED map_lock
    /\ UNCHANGED <<hvars, now, faker, instances, fakers, handle_id, engine_lock, sched, requests>>

\* delete_instance, under the map's read lock: instance.faker.write().await
\* and faker.stop().
DeleteLock(t) ==
    /\ tasks[t].pc = "delete_lock"
    /\ engine_lock[tasks[t].h] = None
    /\ EngineCall(t, tasks[t].h, stop(fakers[tasks[t].h]))
    /\ UNCHANGED <<hvars, now, faker, instances, handle_id, requests>>

\* delete_instance: the instance is removed under the map's write lock.
DeleteRemove(t) ==
    /\ tasks[t].pc = "delete_remove"
    /\ MapWritable
    /\ instances' = [instances EXCEPT ![tasks[t].id] = NoInstance]
    /\ tasks' = [tasks EXCEPT ![t].pc = "save", ![t].h = 0, ![t].up = 0, ![t].down = 0]
    /\ UNCHANGED <<hvars, now, faker, fakers, handle_id, engine_lock, map_lock, sched, requests>>

\* The position of process p in save_state.
SavePos(p) == IF p = Sched THEN sched.i ELSE tasks[p].i
ProcPc(p) == IF p = Sched THEN sched.pc ELSE tasks[p].pc

\* save_state: the map's read lock is taken.
SaveAcquire(p) ==
    /\ ProcPc(p) = "save"
    /\ MapReadable
    /\ map_lock' = [map_lock EXCEPT !.r = @ \cup {p}]
    /\ IF p = Sched
         THEN sched' = [sched EXCEPT !.pc = "save_read", !.i = 1] /\ UNCHANGED tasks
         ELSE tasks' = [tasks EXCEPT ![p].pc = "save_read", ![p].i = 1] /\ UNCHANGED sched
    /\ UNCHANGED <<hvars, now, faker, instances, fakers, handle_id, engine_lock, requests>>

\* save_state, under the map's read lock: the next instance's statistics are
\* read once its engine's read lock is granted.  After the last one the
\* map's lock is released and the state is written; the request returns, the
\* scheduler goes back to sleep.
SaveRead(p) ==
    /\ ProcPc(p) = "save_read"
    /\ instances[SavePos(p)].present => engine_lock[instances[SavePos(p)].faker] = None
    /\ IF SavePos(p) < NumInstances
         THEN /\ IF p = Sched
                   THEN sched' = [sched EXCEPT !.i = @ + 1] /\ UNCHANGED tasks
                   ELSE tasks' = [tasks EXCEPT ![p].i = @ + 1] /\ UNCHANGED sched
              /\ UNCHANGED map_lock
         ELSE /\ map_lock' = [map_lock EXCEPT !.r = @ \ {p}]
              /\ IF p = Sched
                   THEN /\ sched' = [sched EXCEPT !.pc = "sleep", !.i = 1, !.last_save = now,
                                                  !.wake = now + UPDATE_INTERVAL]
                        /\ UNCHANGED tasks
                   ELSE Finish(p) /\ UNCHANGED sched
    /\ UNCHANGED <<hvars, now, faker, instances, fakers, handle_id, engine_lock, requests>>

\* The snapshot as it would be if it left out the engines whose lock is
\* held when it is taken.
Snapshots_of_unlocked ==
    LET hs == {instances[id].faker : id \in {j \in Ids : instances[j].present}}
        free == {h \in hs : engine_lock[h] = None}
    IN  {q \in [1..Cardinality(free) -> free] : \A a, b \in DOMAIN q : q[a] = q[b] => a = b}

\* The orders in which the map may be iterated: the handles of the instances
\* in the map, each once.
Snapshots ==
    LET hs == {instances[id].faker : id \in {j \in Ids : instances[j].present}}
    IN  {q \in [1..Cardinality(hs) -> hs] : \A a, b \in DOMAIN q : q[a] = q[b] => a = b}

\* scheduler_loop wakes from its sleep; update_all_running_instances clones
\* every instance's handle under the map's read lock.
SchedWake ==
    /\ sched.pc = "sleep"
    /\ now >= sched.wake
    /\ MapReadable
    /\ \E q \in Snapshots :
          sched' = [sched EXCEPT !.pc = "visit", !.running = q, !.i = 1,
                                 !.skipped = {}, !.updated = {}]
    /\ UNCHANGED <<hvars, now, faker, instances, fakers, handle_id, engine_lock, map_lock, tasks, requests>>

\* The scheduler as it would be if a failed try_write() ended the pass.
skip_locked_ending_pass(s) ==
    [s EXCEPT !.i = Len(s.running) + 1, !.skipped = @ \cup {s.running[s.i]}]

\* try_write() failed: the scheduler goes on with the next handle.
skip_locked(s) == [s EXCEPT !.i = @ + 1, !.skipped = @ \cup {s.running[s.i]}]

\* The scheduler's state check as it would be if every state passed.
passes_state_check_always(e) == TRUE

\* The scheduler's check of the statistics read under the engine's lock.
passes_state_check(e) == e.stats_state = "Running"

\* update_all_running_instances reaches the next handle of its snapshot:
\* try_write(), the state check and update(); after the last handle the pass
\* is over and scheduler_loop saves the state if it is due.
SchedVisit ==
    /\ sched.pc = "visit"
    /\ IF sched.i > Len(sched.running)
         THEN /\ sched' = IF now - sched.last_save >= SAVE_INTERVAL
                            THEN [sched EXCEPT !.pc = "save", !.running = <<>>,
                                               !.skipped = {}, !.updated = {}]
                            ELSE [sched EXCEPT !.pc = "sleep", !.i = 1, !.running = <<>>,
                                               !.skipped = {}, !.updated = {},
                                               !.wake = now + UPDATE_INTERVAL]
              /\ UNCHANGED <<fakers, engine_lock, map_lock, tasks>>
         ELSE LET h == sched.running[sched.i]
              IN  IF engine_lock[h] # None
                    THEN /\ sched' = skip_locked(sched)
                         /\ UNCHANGED <<fakers, engine_lock, map_lock, tasks>>
                    ELSE IF ~passes_state_check(fakers[h])
                      THEN /\ sched' = [sched EXCEPT !.i = @ + 1]
                           /\ UNCHANGED <<fakers, engine_lock, map_lock, tasks>>
                      ELSE \E pu \in Percents(fakers[h]), pd \in Percents(fakers[h]) :
                              EngineCall(Sched, h, update(fakers[h], now, pu, pd))
    /\ UNCHANGED <<hvars, now, faker, instances, handle_id, requests>>

\* The tracker answers an engine's first MaxAnnounces calls and fails the
\* later ones.
ServerReplies(e) ==
    IF e.announce_count < MaxAnnounces
      THEN {[ok |-> TRUE, interval |-> 5, complete |-> 2, incomplete |-> 3]}
      ELSE {TrackerError}

\* Time passes, for at most MaxPasses sleeps of the scheduler.
ServerAdvance ==
    /\ now < MaxPasses * UPDATE_INTERVAL
    /\ now' = now + UPDATE_INTERVAL
    /\ UNCHANGED <<faker, svars, hvars>>

\* The tracker answers the call in flight of engine h; the operation of the
\* process holding the engine goes on to its next tracker call or returns.
ServerReply(h) ==
    /\ fakers[h].pc # "none"
    /\ \E r \in ServerReplies(fakers[h]),
          pu \in Percents(fakers[h]), pd \in Percents(fakers[h]) :
          EngineCall(engine_lock[h], h, reply(fakers[h], now, r, pu, pd))
    /\ UNCHANGED <<hvars, now, faker, instances, handle_id, requests>>

ServerNext ==
    \/ \E t \in Tasks : Begin(t)
    \/ \E t \in Tasks : ConfigMap(t)
    \/ \E t \in Tasks : ConfigStats(t)
    \/ \E t \in Tasks : ConfigOnly(t)
    \/ \E t \in Tasks : StartMap(t)
    \/ \E t \in Tasks : StartLock(t)
    \/ \E t \in Tasks : StartSpawn(t)
    \/ \E t \in Tasks : StopMap(t)
    \/ \E t \in Tasks : StopStats(t)
    \/ \E t \in Tasks : StopLock(t)
    \/ \E t \in Tasks : StopRecord(t)
    \/ \E t \in Tasks : DeleteMap(t)
    \/ \E t \in Tasks : DeleteLock(t)
    \/ \E t \in Tasks : DeleteRemove(t)
    \/ \E p \in Tasks \cup {Sched} : SaveAcquire(p)
    \/ \E p \in Tasks \cup {Sched} : SaveRead(p)
    \/ SchedWake
    \/ SchedVisit
    \/ \E h \in Handles : ServerReply(h)
    \/ ServerAdvance

ServerSpec == ServerInit /\ [][ServerNext]_vars

\* ------------------------------------------------- claims on the server
\* The engines of instance id, up to handle h, that have been started.
Ran(id, h) == {g \in 1..h : handle_id[g] = id /\ fakers[g].next_announce # None}

\* The engine of the last run before a start of engine h.
LastRun(id, h) == CHOOSE g \in Ran(id, h) : \A k \in Ran(id, h) : k <= g

\* C4: when an instance whose last run is over is started again, the engine
\* begins the new run with session_uploaded and session_downloaded at 0 and
\* with the cumulative totals the last run reached.
C4_RestartResetsSession ==
    [][ \A h \in Handles :
          ( /\ fakers[h].op # "start" /\ fakers'[h].op = "start"
            /\ Ran(handle_id[h], h) # {}
            /\ fakers[LastRun(handle_id[h], h)].state = "Stopped" )
          => /\ fakers'[h].session_uploaded = 0
             /\ fakers'[h].session_downloaded = 0
             /\ fakers'[h].uploaded = fakers[LastRun(handle_id[h], h)].uploaded
             /\ fakers'[h].downloaded = fakers[LastRun(handle_id[h], h)].downloaded
      ]_vars

\* C6: when the scheduler reaches a handle whose engine lock is held it goes
\* straight on to the next handle of the pass and touches no engine; when it
\* reaches a Running engine whose lock is free it calls update() on it; and
\* the pass is over only after the last handle.
C6_SkipsLockedUpdatesOthers ==
    [][ (sched.pc = "visit" /\ sched' # sched) =>
          IF sched.i > Len(sched.running)
            THEN sched'.pc \in {"sleep", "save"}
            ELSE LET h == sched.running[sched.i]
                 IN  /\ sched'.pc \in {"visit", "net"}
                     /\ engine_lock[h] # None =>
                          /\ sched'.pc = "visit" /\ sched'.i = sched.i + 1
                          /\ fakers' = fakers /\ engine_lock' = engine_lock
                     /\ (engine_lock[h] = None /\ fakers[h].stats_state = "Running") =>
                          /\ fakers'[h].last_update = now
                          /\ fakers'[h].op = "update" \/ fakers'[h].ret.op = "update"
      ]_vars

\* In one pass the scheduler has skipped an engine that a foreground call
\* holds and has updated another.
C6_SkippedOneUpdatedOther ==
    /\ sched.pc = "visit"
    /\ sched.skipped # {}
    /\ sched.updated # {}
    /\ \E t \in Tasks : tasks[t].pc = "net" /\ tasks[t].h \in sched.skipped

\* C7: at no time are two engine operations in progress for the same
\* instance id.
C7_OneOperationPerInstance ==
    \A id \in Ids :
        Cardinality({h \in Handles : handle_id[h] = id /\ fakers[h].op # "none"}) <= 1

\* The scheduler awaits a tracker call while engine g, Running and with its
\* lock free, is still to come in the pass.
Delayed(g) ==
    /\ sched.pc = "net"
    /\ \E k \in (sched.i + 1)..Len(sched.running) : sched.running[k] = g
    /\ fakers[g].stats_state = "Running"
    /\ engine_lock[g] = None

\* C8: while a tracker call is in flight for one engine, the scheduler is not
\* kept from updating another Running engine whose lock is free.
C8_TrackerCallDelaysNoOther ==
    \A h \in Handles : fakers[h].pc # "none" => \A g \in Handles \ {h} : ~Delayed(g)

\* C9: no process holds the registry map's lock, shared or exclusive, while
\* its tracker call is in flight.
C9_MapLockNotHeldAcrossCall ==
    \A p \in Tasks \cup {Sched} :
        (p \in map_lock.r \/ map_lock.w = p) => ProcPc(p) # "net"

\* A step replaces the engine of instance id, which stays in the registry.
Replaced(id) ==
    /\ instances[id].present /\ instances'[id].present
    /\ instances'[id].faker # instances[id].faker

\* C16: while the engine of an instance is Running, Starting or Paused, no
\* step replaces the engine or changes the stored configuration of the
\* instance.
C16_NoConfigUpdateWhileActive ==
    [][ \A id \in Ids :
          ( /\ instances[id].present /\ instances'[id].present
            /\ fakers[instances[id].faker].state \in {"Running", "Starting", "Paused"} )
          => /\ instances'[id].faker = instances[id].faker
             /\ instances'[id].config = instances[id].config
      ]_vars

\* C17: a step that replaces the engine of an instance whose engine is
\* Stopped installs, under the same id, an engine with the old engine's
\* cumulative uploaded and downloaded totals and its completion.
C17_ConfigUpdateCarriesTotals ==
    [][ \A id \in Ids :
          (Replaced(id) /\ fakers[instances[id].faker].state = "Stopped")
          => /\ handle_id'[instances'[id].faker] = id
             /\ fakers'[instances'[id].faker].uploaded = fakers[instances[id].faker].uploaded
             /\ fakers'[instances'[id].faker].downloaded = fakers[instances[id].faker].downloaded
             /\ torrent_completion(fakers'[instances'[id].faker])
                   = torrent_completion(fakers[instances[id].faker])
      ]_vars

\* A step in which the configuration update of task t returns an error to
\* its caller: it ends without replacing the engine and without the save
\* that follows a successful update.
ConfigUpdateFails(t) ==
    /\ tasks[t].pc \in {"config_map", "config_stats", "config_only"}
    /\ tasks'[t].op = "none"

\* C19: a configuration update that returns an error leaves the registry
\* entry (engine, stored configuration, cumulative totals) and the engines
\* as they were before the call.
C19_FailedUpdateChangesNothing ==
    [][ \A t \in Tasks :
          ConfigUpdateFails(t) => instances' = instances /\ fakers' = fakers ]_vars

\* A step of the scheduler at the next handle of its snapshot.
SchedulerAt(h) ==
    /\ sched.pc = "visit"
    /\ sched' # sched
    /\ sched.i <= Len(sched.running)
    /\ h = sched.running[sched.i]

\* C23: the scheduler calls update() on an engine only when it got the
\* engine's lock and found it Running; at an engine in any other state its
\* step changes no engine, takes no lock and makes no tracker call.
C23_SchedulerUpdatesRunningOnly ==
    [][ \A h \in Handles : SchedulerAt(h) =>
          /\ (fakers' # fakers \/ sched'.pc = "net")
                => engine_lock[h] = None /\ fakers[h].state = "Running"
          /\ fakers[h].state # "Running"
                => /\ fakers' = fakers
                   /\ engine_lock' = engine_lock
                   /\ sched'.pc = "visit" ]_vars

\* The scheduler has passed, in one pass, over an engine that is not Running
\* and has updated a Running one.
C23_PassedOverStoppedEngine ==
    /\ sched.pc = "visit"
    /\ sched.updated # {}
    /\ \E k \in 1..(sched.i - 1) :
          /\ sched.running[k] \notin sched.updated \cup sched.skipped
          /\ fakers[sched.running[k]].state = "Stopped"
          /\ fakers[sched.running[k]].last_update = 0

\* C26: when stop_instance stores the totals after its stop() has returned,
\* the instance's cumulative uploaded and downloaded (the statistics it
\* returns) equal those of the engine it stopped.
C26_StopRecordsFinalTotals ==
    [][ \A t \in Tasks :
          ( /\ tasks[t].pc = "stop_record" /\ tasks'[t].pc = "save"
            /\ instances[tasks[t].id].present )
          => /\ instances'[tasks[t].id].cumulative_uploaded = fakers[tasks[t].h].uploaded
             /\ instances'[tasks[t].id].cumulative_downloaded = fakers[tasks[t].h].downloaded
      ]_vars

\* ------------------------------------------------------ concurrent requests
\* The server with MaxRaceTasks requests in progress at a time, out of
\* MaxRaceRequests requests in all, and one pass of the scheduler.
MaxRaceTasks == 2
MaxRaceRequests == 2

RaceTasks == 1..MaxRaceTasks

RaceInit == Created(MaxRaceTasks)

RaceBegin(t) == Arrive(t, MaxRaceRequests)

RaceNext ==
    \/ \E t \in RaceTasks : RaceBegin(t)
    \/ \E t \in RaceTasks : ConfigMap(t)
    \/ \E t \in RaceTasks : ConfigStats(t)
    \/ \E t \in RaceTasks : ConfigOnly(t)
    \/ \E t \in RaceTasks : StartMap(t)
    \/ \E t \in RaceTasks : StartLock(t)
    \/ \E t \in RaceTasks : StartSpawn(t)
    \/ \E t \in RaceTasks : StopMap(t)
    \/ \E t \in RaceTasks : StopStats(t)
    \/ \E t \in RaceTasks : StopLock(t)
    \/ \E t \in RaceTasks : StopRecord(t)
    \/ \E t \in RaceTasks : DeleteMap(t)
    \/ \E t \in RaceTasks : DeleteLock(t)
    \/ \E t \in RaceTasks : DeleteRemove(t)
    \/ \E p \in RaceTasks \cup {Sched} : SaveAcquire(p)
    \/ \E p \in RaceTasks \cup {Sched} : SaveRead(p)
    \/ SchedWake
    \/ SchedVisit
    \/ \E h \in Handles : ServerReply(h)
    \/ ServerAdvance

RaceSpec == RaceInit /\ [][RaceNext]_vars

\* delete_instance has returned for instance id: the instance is gone and no
\* delete of it is in progress.
Deleted(id) ==
    /\ ~instances[id].present
    /\ \A t \in DOMAIN tasks : ~(tasks[t].op = "delete" /\ tasks[t].id = id)

\* C27: once delete_instance has returned for an id, no engine created for
\* that id is Running or Starting or has a tracker call in flight.
C27_DeletedStaysStopped ==
    \A h \in Handles :
       (handle_id[h] # None /\ Deleted(handle_id[h]))
          => fakers[h].state \notin {"Running", "Starting"} /\ fakers[h].pc = "none"

\* ---------------------------------------------------- the scheduler's passes
\* The server over several passes of the scheduler.  A pass is short against
\* the scheduler's sleep: time advances while the scheduler sleeps, up to its
\* next wake-up.  The requests, the tracker's answers and the passes
\* interleave as in ServerSpec.
MaxRetryPasses == 2
MaxRetryRequests == 1

RetryBegin(t) == Arrive(t, MaxRetryRequests)

RetryAdvance ==
    /\ sched.pc = "sleep"
    /\ now < sched.wake
    /\ now < MaxRetryPasses * UPDATE_INTERVAL
    /\ now' = now + UPDATE_INTERVAL
    /\ UNCHANGED <<faker, svars, hvars>>

RetryNext ==
    \/ \E t \in Tasks : RetryBegin(t)
    \/ \E t \in Tasks : ConfigMap(t)
    \/ \E t \in Tasks : ConfigStats(t)
    \/ \E t \in Tasks : ConfigOnly(t)
    \/ \E t \in Tasks : StartMap(t)
    \/ \E t \in Tasks : StartLock(t)
    \/ \E t \in Tasks : StartSpawn(t)
    \/ \E t \in Tasks : StopMap(t)
    \/ \E t \in Tasks : StopStats(t)
    \/ \E t \in Tasks : StopLock(t)
    \/ \E t \in Tasks : StopRecord(t)
    \/ \E t \in Tasks : DeleteMap(t)
    \/ \E t \in Tasks : DeleteLock(t)
    \/ \E t \in Tasks : DeleteRemove(t)
    \/ \E p \in Tasks \cup {Sched} : SaveAcquire(p)
    \/ \E p \in Tasks \cup {Sched} : SaveRead(p)
    \/ SchedWake
    \/ SchedVisit
    \/ \E h \in Handles : ServerReply(h)
    \/ RetryAdvance

\* Every step but the arrival of a request.
RetryRun ==
    \/ \E t \in Tasks :
          \/ ConfigMap(t) \/ ConfigStats(t) \/ ConfigOnly(t)
          \/ StartMap(t) \/ StartLock(t) \/ StartSpawn(t)
          \/ StopMap(t) \/ StopStats(t) \/ StopLock(t) \/ StopRecord(t)
          \/ DeleteMap(t) \/ DeleteLock(t) \/ DeleteRemove(t)
    \/ \E p \in Tasks \cup {Sched} : SaveAcquire(p) \/ SaveRead(p)
    \/ SchedWake
    \/ SchedVisit
    \/ \E h \in Handles : ServerReply(h)
    \/ RetryAdvance

\* The runtime runs a task that can run, the tracker's calls return (or time
\* out), and time passes: the server does not halt while a step other than
\* the arrival of a request is possible.  Time is bounded, so that every
\* behaviour comes to rest, and it does so only when no such step is left.
RetryFairness == WF_vars(RetryRun)

RetrySpec == ServerInit /\ [][RetryNext]_vars /\ RetryFairness

\* The scheduler's current pass has reached handle h of its snapshot.
ReachedInPass(h) ==
    /\ sched.pc \in {"visit", "net"}
    /\ \E k \in 1..Len(sched.running) :
          /\ sched.running[k] = h
          /\ k < sched.i \/ (k = sched.i /\ sched.pc = "net")

\* Engine h is the engine of an instance in the registry.
Registered(h) == \E id \in Ids : instances[id].present /\ instances[id].faker = h

\* C24: an engine the scheduler skipped in one pass because its lock was
\* held is reached again by the next pass as long as it is in the registry,
\* and an engine the scheduler reaches while its lock is free and its state
\* Running is updated.
C24_SkippedIsRetried ==
    /\ \A h \in Handles : \A n \in 1..(MaxRetryPasses - 1) :
          (now = n * UPDATE_INTERVAL /\ h \in sched.skipped)
             ~> (now > n * UPDATE_INTERVAL /\ (ReachedInPass(h) \/ ~Registered(h)))
    /\ [][ \A h \in Handles :
             (SchedulerAt(h) /\ engine_lock[h] = None /\ fakers[h].state = "Running")
                => (sched'.pc = "net" \/ h \in sched'.updated) ]_vars

\* An engine that was skipped in the first pass, while its "started"
\* announce was in flight, has been updated by the second pass.
C24_UpdatedInSecondPass ==
    /\ now = 2 * UPDATE_INTERVAL
    /\ \E h \in Handles :
          /\ h \in sched.updated
          /\ fakers[h].start_time = 0
          /\ fakers[h].last_update = now
          /\ fakers[h].session_uploaded = 2 * UPDATE_INTERVAL * KB

\* Process p is in its engine call: it holds the engine's lock and runs the
\* engine's operation up to its tracker call.
InEngineCall(p) == ProcPc(p) = "net"

MaxShutdownPasses == 2

SHUTDOWN_TIMEOUT == 5

\* An engine after start() has returned with the tracker's answer, at time 0.
Started(config) ==
    start_reply(start(newAt(config, 0), 0), 0,
                [ok |-> TRUE, interval |-> 5, complete |-> 2, incomplete |-> 3])

\* The engine of an instance in lifecycle state st.
EngineIn(st, config) ==
    CASE st = "Running" -> Started(config)
      [] st = "Paused" -> pause(Started(config))
      [] st = "Stopped" -> newAt(config, 0)

ShutdownInit ==
    /\ now = 0
    /\ faker = newAt(BaseConfig, 0)
    /\ instances = [id \in Ids |->
                      [present |-> TRUE, faker |-> id, config |-> CreatedConfig(id),
                       cumulative_uploaded |-> 0, cumulative_downloaded |-> 0]]
    /\ \E st \in [Ids -> {"Running", "Paused", "Stopped"}] :
          fakers = [h \in Handles |->
                      IF h \in Ids THEN EngineIn(st[h], CreatedConfig(h))
                                   ELSE newAt(CreatedConfig(h), 0)]
    /\ handle_id = [h \in Handles |-> IF h \in Ids THEN h ELSE None]
    /\ engine_lock = [h \in Handles |-> None]
    /\ map_lock = [w |-> None, r |-> {}]
    /\ tasks = [t \in Tasks |-> IdleTask]
    /\ requests = 0
    /\ history = NoHistory
    /\ peer = NoPeer
    /\ sent = NothingSent
    /\ disk = NoDisk
    /\ next_instance_id = 1
    /\ sched = [pc |-> "sleep", running |-> <<>>, i |-> 1,
                wake |-> UPDATE_INTERVAL, last_save |-> 0,
                skipped |-> {}, updated |-> {}]

\* The shutdown signal has been sent to the scheduler's channel.
ShutdownRequested == requests > 0

\* main's shutdown task, on the shutdown signal: Scheduler::shutdown sends ()
\* on the scheduler's channel and waits for the scheduler's task, for at most
\* SHUTDOWN_TIMEOUT seconds.
ShutdownSignal(t) ==
    /\ tasks[t].op = "none"
    /\ ~ShutdownRequested
    /\ requests' = requests + 1
    /\ tasks' = [tasks EXCEPT ![t] = [IdleTask EXCEPT !.op = "shutdown",
                                                      !.pc = "shutdown_join",
                                                      !.deadline = now + SHUTDOWN_TIMEOUT]]
    /\ UNCHANGED <<hvars, now, faker, instances, fakers, handle_id, engine_lock, map_lock, sched>>

\* scheduler_loop's select!: the shutdown signal is received, at the top of
\* the loop only, and the loop ends.
SchedStop ==
    /\ sched.pc = "sleep"
    /\ ShutdownRequested
    /\ sched' = [sched EXCEPT !.pc = "off"]
    /\ UNCHANGED <<hvars, now, faker, instances, fakers, handle_id, engine_lock, map_lock,
                   tasks, requests>>

\* Whether Scheduler::shutdown goes on without the scheduler's task having
\* ended: when its timeout has expired.
join_gives_up(deadline) == now >= deadline

\* Scheduler::shutdown returns, the scheduler's task having ended or the
\* timeout having expired (the task is left running); shutdown_all takes the
\* map's read lock.
ShutdownJoin(t) ==
    /\ tasks[t].pc = "shutdown_join"
    /\ sched.pc = "off" \/ join_gives_up(tasks[t].deadline)
    /\ MapReadable
    /\ map_lock' = [map_lock EXCEPT !.r = @ \cup {t}]
    /\ tasks' = [tasks EXCEPT ![t].pc = "shutdown_all", ![t].i = 1]
    /\ UNCHANGED <<hvars, now, faker, instances, fakers, handle_id, engine_lock, sched, requests>>

\* shutdown_all, under the map's read lock: the next instance's engine is
\* write-locked and stopped if it is Starting, Running or Paused; after the
\* last one the map's lock is dropped and main goes on to save_state.
ShutdownVisit(t) ==
    /\ tasks[t].pc = "shutdown_all"
    /\ IF tasks[t].i > NumInstances
         THEN /\ map_lock' = [map_lock EXCEPT !.r = @ \ {t}]
              /\ tasks' = [tasks EXCEPT ![t].pc = "save", ![t].i = 0]
              /\ UNCHANGED <<fakers, engine_lock>>
         ELSE LET h == instances[tasks[t].i].faker
                  e2 == stop(fakers[h])
              IN  /\ engine_lock[h] = None
                  /\ UNCHANGED map_lock
                  /\ IF fakers[h].stats_state \in {"Starting", "Running", "Paused"}
                       THEN /\ fakers' = [fakers EXCEPT ![h] = e2]
                            /\ engine_lock' = [engine_lock EXCEPT ![h] = t]
                            /\ tasks' = [tasks EXCEPT ![t].pc = "net", ![t].i = @ + 1]
                       ELSE /\ tasks' = [tasks EXCEPT ![t].i = @ + 1]
                            /\ UNCHANGED <<fakers, engine_lock>>
    /\ UNCHANGED <<hvars, now, faker, instances, handle_id, sched, requests>>

\* Time passes while the scheduler sleeps, up to its wake-up and unless the
\* shutdown signal is there to be received, and while the scheduler awaits a
\* tracker call or has ended.
ShutdownAdvance ==
    /\ now < MaxShutdownPasses * UPDATE_INTERVAL
    /\ \/ sched.pc = "sleep" /\ now < sched.wake /\ ~ShutdownRequested
       \/ sched.pc \in {"net", "off"}
    /\ now' = now + UPDATE_INTERVAL
    /\ UNCHANGED <<faker, svars, hvars>>

ShutdownNext ==
    \/ \E t \in Tasks : ShutdownSignal(t)
    \/ \E t \in Tasks : ShutdownJoin(t)
    \/ \E t \in Tasks : ShutdownVisit(t)
    \/ \E p \in Tasks \cup {Sched} : SaveAcquire(p)
    \/ \E p \in Tasks \cup {Sched} : SaveRead(p)
    \/ SchedWake
    \/ SchedVisit
    \/ SchedStop
    \/ \E h \in Handles : ServerReply(h)
    \/ ShutdownAdvance

ShutdownSpec == ShutdownInit /\ [][ShutdownNext]_vars

\* shutdown_all has begun, or is over.
StoppingBegun ==
    \E t \in Tasks : tasks[t].op = "shutdown" /\ tasks[t].pc # "shutdown_join"

\* The final snapshot is being taken, or has been.
FinalSave ==
    \E t \in Tasks : tasks[t].op = "shutdown" /\ tasks[t].pc \in {"save", "save_read"}

\* C34: once shutdown_all has begun the scheduler calls no update(); and
\* when the final snapshot is taken shutdown_all has attempted stop() on
\* every instance that was Starting, Running or Paused, and these calls have
\* returned: every engine is Stopped and no call is in flight.
C34_SchedulerStoppedBeforeInstances ==
    /\ [][ (StoppingBegun /\ sched.pc = "visit") => fakers' = fakers ]_vars
    /\ [](FinalSave =>
            \A id \in Ids : /\ fakers[instances[id].faker].state = "Stopped"
                            /\ fakers[instances[id].faker].pc = "none")

\* ---------------------------------------------------- the single-threaded build
\* The WebAssembly build: one thread, the table INSTANCES of instances that
\* own their engines, and the calls of the page, which interleave at their
\* awaits only.  A task of an asynchronous call holds, in held, the instance
\* it has taken out of the table (with_instance) or is about to insert
\* (start_faker); its field deleted records that delete_instance was called
\* for its id in the meantime.
MaxWasmCalls == 2
MaxWasmRequests == 3

WasmTasks == 1..MaxWasmCalls

\* load_instance_torrent has inserted an instance under each id.
WasmInit ==
    /\ now = 0
    /\ faker = newAt(BaseConfig, 0)
    /\ instances = [id \in Ids |->
                      [present |-> TRUE, faker |-> id, config |-> CreatedConfig(id),
                       cumulative_uploaded |-> 0, cumulative_downloaded |-> 0]]
    /\ fakers = [h \in Handles |-> newAt(CreatedConfig(h), 0)]
    /\ handle_id = [h \in Handles |-> IF h \in Ids THEN h ELSE None]
    /\ engine_lock = [h \in Handles |-> None]
    /\ map_lock = [w |-> None, r |-> {}]
    /\ tasks = [t \in WasmTasks |-> IdleTask]
    /\ requests = 0
    /\ history = NoHistory
    /\ peer = NoPeer
    /\ sent = NothingSent
    /\ disk = NoDisk
    /\ next_instance_id = 1
    /\ sched = [pc |-> "off"]

\* Task t is the first free one and a further call may be made.
WasmFree(t) ==
    /\ tasks[t].op = "none"
    /\ \A u \in 1..(t - 1) : tasks[u].op # "none"
    /\ requests < MaxWasmRequests

\* start_faker(id): the cumulative totals of the entry under id are carried
\* over, an engine is constructed and start() awaits its announce.
WasmStart(t, id) ==
    /\ WasmFree(t)
    /\ nfakers < MaxFakers
    /\ LET h2 == nfakers + 1
           cu == IF instances[id].present THEN instances[id].cumulative_uploaded ELSE 0
           cd == IF instances[id].present THEN instances[id].cumulative_downloaded ELSE 0
           config == [CreatedConfig(id) EXCEPT !.initial_uploaded = cu,
                                               !.initial_downloaded = cd]
       IN  /\ fakers' = [fakers EXCEPT ![h2] = start(newAt(config, now), now)]
           /\ handle_id' = [handle_id EXCEPT ![h2] = id]
           /\ tasks' = [tasks EXCEPT ![t] =
                           [IdleTask EXCEPT !.op = "start_faker", !.id = id, !.pc = "net",
                                !.h = h2,
                                !.held = [present |-> TRUE, faker |-> h2, config |-> config,
                                          cumulative_uploaded |-> cu,
                                          cumulative_downloaded |-> cd]]]
    /\ requests' = requests + 1
    /\ UNCHANGED <<hvars, now, faker, instances, engine_lock, map_lock, sched>>

\* with_instance(id, f) for update_faker and stop_faker: take_instance fails
\* with "Instance not found" when the id is not in the table; otherwise the
\* instance is taken out, the engine's operation runs up to its tracker call
\* or its return, and on return put_instance inserts the instance again.
\* stop_faker stores the totals read before stop() as cumulative totals.
WasmWith(t, id, op) ==
    /\ WasmFree(t)
    /\ requests' = requests + 1
    /\ IF ~instances[id].present
         THEN UNCHANGED <<fakers, instances, tasks>>
         ELSE LET h == instances[id].faker
                  held == IF op = "stop_faker"
                            THEN [instances[id] EXCEPT
                                     !.cumulative_uploaded = fakers[h].uploaded,
                                     !.cumulative_downloaded = fakers[h].downloaded]
                            ELSE instances[id]
              IN  \E pu \in Percents(fakers[h]), pd \in Percents(fakers[h]) :
                     LET e2 == IF op = "stop_faker" THEN stop(fakers[h])
                                                    ELSE update(fakers[h], now, pu, pd)
                     IN  /\ fakers' = [fakers EXCEPT ![h] = e2]
                         /\ IF e2.pc = "none"
                              THEN /\ instances' = [instances EXCEPT ![id] = held]
                                   /\ UNCHANGED tasks
                              ELSE /\ instances' = [instances EXCEPT ![id] = NoInstance]
                                   /\ tasks' = [tasks EXCEPT ![t] =
                                                   [IdleTask EXCEPT !.op = op, !.id = id,
                                                        !.pc = "net", !.h = h,
                                                        !.held = held]]
    /\ UNCHANGED <<hvars, now, faker, handle_id, engine_lock, map_lock, sched>>

\* delete_instance(id): the entry under id, if any, is removed.
WasmDelete(id) ==
    /\ requests < MaxWasmRequests
    /\ requests' = requests + 1
    /\ instances' = [instances EXCEPT ![id] = NoInstance]
    /\ tasks' = [t \in WasmTasks |->
                   IF tasks[t].op # "none" /\ tasks[t].id = id
                     THEN [tasks[t] EXCEPT !.deleted = TRUE]
                     ELSE tasks[t]]
    /\ UNCHANGED <<hvars, now, faker, fakers, handle_id, engine_lock, map_lock, sched>>

\* The tracker answers the call awaited by task t; when the engine's
\* operation returns, the instance held by the task is inserted under its id.
WasmReply(t) ==
    /\ tasks[t].pc = "net"
    /\ LET h == tasks[t].h
       IN  \E r \in Replies(fakers[h]), pu \in Percents(fakers[h]), pd \in Percents(fakers[h]) :
              LET e2 == reply(fakers[h], now, r, pu, pd)
              IN  /\ fakers' = [fakers EXCEPT ![h] = e2]
                  /\ IF e2.pc = "none"
                       THEN /\ instances' = [instances EXCEPT ![tasks[t].id] = tasks[t].held]
                            /\ tasks' = [tasks EXCEPT ![t] = IdleTask]
                       ELSE UNCHANGED <<instances, tasks>>
    /\ UNCHANGED <<hvars, now, faker, handle_id, engine_lock, map_lock, sched, requests>>

WasmNext ==
    \/ \E t \in WasmTasks, id \in Ids : WasmStart(t, id)
    \/ \E t \in WasmTasks, id \in Ids : WasmWith(t, id, "update_faker")
    \/ \E t \in WasmTasks, id \in Ids : WasmWith(t, id, "stop_faker")
    \/ \E id \in Ids : WasmDelete(id)
    \/ \E t \in WasmTasks : WasmReply(t)
    \/ ServerAdvance

WasmSpec == WasmInit /\ [][WasmNext]_vars

\* C35: delete_instance(id) removes the entry under id, and when that entry's
\* engine is not Stopped it attempts a "stopped" announce on it; a call of
\* update_faker or stop_faker for an id that is not in the table touches no
\* engine and no entry.
C35_DeleteAnnouncesStopped ==
    [][ \A id \in Ids :
          /\ WasmDelete(id) =>
                /\ ~instances'[id].present
                /\ ( /\ instances[id].present
                     /\ fakers[instances[id].faker].state # "Stopped" ) =>
                      attempts(fakers[instances[id].faker],
                               fakers'[instances[id].faker]) = "stopped"
          /\ \A t \in WasmTasks, op \in {"update_faker", "stop_faker"} :
                (WasmWith(t, id, op) /\ ~instances[id].present) =>
                   UNCHANGED <<fakers, instances, tasks>> ]_vars

\* C39: when update_faker or stop_faker returns from its tracker call and
\* delete_instance was called for its id during that call, the instance it
\* had taken out is not in the table afterwards.
C39_DeleteDuringAwaitTakesEffect ==
    [][ \A t \in WasmTasks :
          ( /\ tasks[t].pc = "net" /\ tasks'[t].pc # "net"
            /\ tasks[t].op \in {"update_faker", "stop_faker"}
            /\ tasks[t].deleted ) =>
             ~( /\ instances'[tasks[t].id].present
                /\ instances'[tasks[t].id].faker = tasks[t].h ) ]_vars

\* ------------------------------------------------------------ the snapshot
\* save_state and Persistence::save, load_saved_state and Persistence::load.
\* Two requests may be saving at once; the process may be killed and started
\* again at any moment, and then reads what the data directory holds.
MaxSavers == 2
MaxPersistRequests == 2
MaxPersistPasses == 1

PersistTasks == 1..MaxSavers

\* save_state: the PersistedInstance of instance id, built from the
\* statistics of its engine e.
PersistedInstance(id, inst, e) ==
    [id |-> id,
     config |-> [inst.config EXCEPT !.completion = torrent_completion(e)],
     cumulative_uploaded |-> e.uploaded,
     cumulative_downloaded |-> e.downloaded,
     state |-> e.stats_state]

\* The part of a PersistedState that is not an instance (version,
\* default_config).
PersistedHeader ==
    [id |-> 0, config |-> BaseConfig, cumulative_uploaded |-> 0,
     cumulative_downloaded |-> 0, state |-> "Stopped"]

\* serde_json::to_string_pretty: the text of a snapshot, piece by piece; each
\* piece carries the call that produced it, its place and the text's length.
to_string_pretty(persisted, call) ==
    LET text == <<PersistedHeader>> \o persisted
    IN  [k \in 1..Len(text) |->
           [by |-> call, part |-> k, of |-> Len(text), entry |-> text[k]]]

\* serde_json::from_str succeeds on a text that is one whole snapshot.
parses(text) ==
    /\ Len(text) >= 1
    /\ \A k \in DOMAIN text :
          text[k].by = text[1].by /\ text[k].part = k /\ text[k].of = Len(text)

\* serde_json::from_str: the instances of a text that parses.
from_str(text) == [k \in 1..(Len(text) - 1) |-> text[k + 1].entry]

\* A write of text at offset 0 of a file holding old.
write_all(text, old) == text \o SubSeq(old, Len(text) + 1, Len(old))

\* The files no path names and no task has open.
FreeFiles ==
    Files \ ({disk.state, disk.tmp, disk.corrupted} \cup {tasks[t].fd : t \in DOMAIN tasks})

\* The data directory once the files that no path names and none of the
\* tasks ts has open are gone.
unlinked(d, ts) ==
    [d EXCEPT !.data = [f \in Files |->
        IF f \in {d.state, d.tmp, d.corrupted} \cup {ts[t].fd : t \in DOMAIN ts}
          THEN d.data[f] ELSE <<>>]]

PersistInit ==
    /\ now = 0
    /\ faker = newAt(BaseConfig, 0)
    /\ instances = [id \in Ids |->
                      [present |-> TRUE, faker |-> id, config |-> CreatedConfig(id),
                       cumulative_uploaded |-> 0, cumulative_downloaded |-> 0]]
    /\ \E st \in [Ids -> {"Running", "Stopped"}] :
          /\ st[1] = "Running"
          /\ fakers = [h \in Handles |->
                         IF h \in Ids THEN EngineIn(st[h], CreatedConfig(h))
                                      ELSE newAt(CreatedConfig(h), 0)]
    /\ handle_id = [h \in Handles |-> IF h \in Ids THEN h ELSE None]
    /\ engine_lock = [h \in Handles |-> None]
    /\ map_lock = [w |-> None, r |-> {}]
    /\ tasks = [t \in PersistTasks |-> IdleTask]
    /\ requests = 0
    /\ history = NoHistory
    /\ peer = NoPeer
    /\ sent = NothingSent
    /\ disk = NoDisk
    /\ next_instance_id = 1
    /\ sched = [pc |-> "sleep", running |-> <<>>, i |-> 1,
                wake |-> UPDATE_INTERVAL, last_save |-> 0,
                skipped |-> {}, updated |-> {}]

\* load_saved_state is running: main starts the scheduler and the listener
\* after it.
Loading == \E t \in PersistTasks : tasks[t].op = "load"

\* The process has been started again.
Restarted == requests > MaxPersistRequests

\* A request arrives whose handler ends in save_state: delete_instance, or
\* one that changes nothing in the registry before it saves.
PersistBegin(t) ==
    /\ tasks[t].op = "none"
    /\ \A u \in 1..(t - 1) : tasks[u].op # "none"
    /\ ~Loading
    /\ requests < MaxPersistRequests
    /\ requests' = requests + 1
    /\ \/ tasks' = [tasks EXCEPT ![t] = [IdleTask EXCEPT !.op = "save", !.pc = "save"]]
       \/ \E id \in Ids :
             tasks' = [tasks EXCEPT ![t] = [IdleTask EXCEPT !.op = "delete", !.id = id,
                                                            !.pc = "delete_map"]]
    /\ UNCHANGED <<hvars, now, faker, instances, fakers, handle_id, engine_lock, map_lock, sched>>

\* save_state: the map's read lock is taken and an empty PersistedState is
\* made.
PersistAcquire(t) ==
    /\ tasks[t].pc = "save"
    /\ MapReadable
    /\ map_lock' = [map_lock EXCEPT !.r = @ \cup {t}]
    /\ tasks' = [tasks EXCEPT ![t].pc = "save_read", ![t].i = 1, ![t].snap = <<>>]
    /\ UNCHANGED <<hvars, now, faker, instances, fakers, handle_id, engine_lock, sched, requests>>

\* save_state, under the map's read lock: the next instance's statistics are
\* read once its engine's read lock is granted, and its PersistedInstance is
\* inserted.  After the last one the map's lock is released.
PersistRead(t) ==
    /\ tasks[t].pc = "save_read"
    /\ instances[tasks[t].i].present => engine_lock[instances[tasks[t].i].faker] = None
    /\ LET id == tasks[t].i
           snap == IF instances[id].present
                     THEN Append(tasks[t].snap,
                                 PersistedInstance(id, instances[id], fakers[instances[id].faker]))
                     ELSE tasks[t].snap
       IN  IF id < NumInstances
             THEN /\ tasks' = [tasks EXCEPT ![t].i = @ + 1, ![t].snap = snap]
                  /\ UNCHANGED map_lock
             ELSE /\ tasks' = [tasks EXCEPT ![t].pc = "persist_create", ![t].i = 0,
                                            ![t].snap = snap]
                  /\ map_lock' = [map_lock EXCEPT !.r = @ \ {t}]
    /\ UNCHANGED <<hvars, now, faker, instances, fakers, handle_id, engine_lock, sched, requests>>

\* Persistence::save: the state is serialised and File::create opens
\* state.json.tmp, truncating the file of that name if there is one.
PersistCreate(t) ==
    /\ tasks[t].pc = "persist_create"
    /\ disk.tmp = 0 => FreeFiles # {}
    /\ LET f == IF disk.tmp # 0 THEN disk.tmp ELSE CHOOSE g \in FreeFiles : TRUE
       IN  /\ disk' = [disk EXCEPT !.tmp = f, !.data[f] = <<>>, !.calls = @ + 1]
           /\ tasks' = [tasks EXCEPT ![t].pc = "persist_write", ![t].fd = f,
                                     ![t].snap = to_string_pretty(tasks[t].snap, disk.calls + 1)]
    /\ UNCHANGED <<history, peer, sent, next_instance_id, now, faker, instances, fakers, handle_id, engine_lock, map_lock, sched, requests>>

\* Persistence::save: write_all and sync_all on the file that was opened.
PersistWrite(t) ==
    /\ tasks[t].pc = "persist_write"
    /\ disk' = [disk EXCEPT !.data[tasks[t].fd] = write_all(tasks[t].snap, @)]
    /\ tasks' = [tasks EXCEPT ![t].pc = "persist_rename"]
    /\ UNCHANGED <<history, peer, sent, next_instance_id, now, faker, instances, fakers, handle_id, engine_lock, map_lock, sched, requests>>

\* Persistence::save: state.json.tmp is renamed to state.json; the call fails
\* if there is no file of that name.  save_state returns, and so does the
\* request; load_saved_state goes on with its next auto-start.
PersistRename(t) ==
    /\ tasks[t].pc = "persist_rename"
    /\ tasks' = IF tasks[t].op = "load"
                  THEN [tasks EXCEPT ![t].pc = "load_start", ![t].snap = <<>>, ![t].fd = 0]
                  ELSE [tasks EXCEPT ![t] = IdleTask]
    /\ disk' = unlinked(IF disk.tmp = 0 THEN disk
                                         ELSE [disk EXCEPT !.state = disk.tmp, !.tmp = 0],
                        tasks')
    /\ UNCHANGED <<history, peer, sent, next_instance_id, now, faker, instances, fakers, handle_id, engine_lock, map_lock, sched, requests>>

\* Persistence::load: the instances of state.json; none if the file is not
\* there or does not parse.
load(d) ==
    IF d.state # 0 /\ parses(d.data[d.state]) THEN from_str(d.data[d.state]) ELSE <<>>

\* Persistence::load: a state.json that does not parse is renamed to
\* state.json.corrupted.
quarantine(d) ==
    IF d.state # 0 /\ ~parses(d.data[d.state])
      THEN [d EXCEPT !.corrupted = d.state, !.state = 0]
      ELSE d

\* faker_config as it would be if the totals were not carried over.
faker_config_without_totals(persisted) == persisted.config

\* load_saved_state: the configuration the engine of a persisted instance is
\* made with.
faker_config(persisted) ==
    [persisted.config EXCEPT !.initial_uploaded = persisted.cumulative_uploaded,
                             !.initial_downloaded = persisted.cumulative_downloaded]

\* The process ends, at any moment, and is started again: main calls
\* load_saved_state, whose first pass makes an engine and an instance of
\* every persisted instance and notes the ones that were Starting or
\* Running.  Nothing of the old process is left but the files.  The process
\* is restarted once, and no request is followed after that.
Restart ==
    /\ ~Restarted
    /\ requests' = MaxPersistRequests + 1
    /\ LET saved == load(disk)
           at(id) == CHOOSE k \in DOMAIN saved : saved[k].id = id
           restored == {saved[k].id : k \in DOMAIN saved}
           auto == SelectSeq(saved, LAMBDA x : x.state \in {"Starting", "Running"})
       IN  /\ instances' = [id \in Ids |->
                 IF id \in restored
                   THEN [present |-> TRUE, faker |-> id, config |-> saved[at(id)].config,
                         cumulative_uploaded |-> saved[at(id)].cumulative_uploaded,
                         cumulative_downloaded |-> saved[at(id)].cumulative_downloaded]
                   ELSE NoInstance]
           /\ fakers' = [h \in Handles |->
                 IF h \in restored THEN newAt(faker_config(saved[at(h)]), now)
                                   ELSE newAt(CreatedConfig(h), 0)]
           /\ handle_id' = [h \in Handles |-> IF h \in restored THEN h ELSE None]
           /\ tasks' = [t \in PersistTasks |->
                 IF t = 1
                   THEN [IdleTask EXCEPT !.op = "load", !.pc = "load_start",
                                         !.auto_start_ids = [k \in DOMAIN auto |-> auto[k].id]]
                   ELSE IdleTask]
           /\ disk' = unlinked(quarantine(disk), tasks')
    /\ engine_lock' = [h \in Handles |-> None]
    /\ map_lock' = [w |-> None, r |-> {}]
    /\ sched' = [pc |-> "off", running |-> <<>>, i |-> 1, wake |-> 0, last_save |-> 0,
                 skipped |-> {}, updated |-> {}]
    /\ UNCHANGED <<history, peer, sent, next_instance_id, now, faker>>

\* load_saved_state, second pass: start_instance for the next id that was
\* noted; after the last one main starts the scheduler, which sleeps first.
LoadStart(t) ==
    /\ tasks[t].pc = "load_start"
    /\ IF tasks[t].auto_start_ids = <<>>
         THEN /\ tasks' = [tasks EXCEPT ![t] = IdleTask]
              /\ sched' = [sched EXCEPT !.pc = "sleep", !.wake = now + UPDATE_INTERVAL,
                                        !.last_save = now]
         ELSE /\ tasks' = [tasks EXCEPT ![t].pc = "start_map",
                                        ![t].id = Head(tasks[t].auto_start_ids),
                                        ![t].auto_start_ids = Tail(@)]
              /\ UNCHANGED sched
    /\ UNCHANGED <<hvars, now, faker, instances, fakers, handle_id, engine_lock, map_lock, requests>>

\* Time passes, for at most MaxPersistPasses sleeps of the scheduler.
PersistAdvance ==
    /\ now < MaxPersistPasses * UPDATE_INTERVAL
    /\ now' = now + UPDATE_INTERVAL
    /\ UNCHANGED <<faker, svars, hvars>>

PersistNext ==
    \/ \E t \in PersistTasks : PersistBegin(t)
    \/ \E t \in PersistTasks : DeleteMap(t)
    \/ \E t \in PersistTasks : DeleteLock(t)
    \/ \E t \in PersistTasks : DeleteRemove(t)
    \/ \E t \in PersistTasks : PersistAcquire(t)
    \/ \E t \in PersistTasks : PersistRead(t)
    \/ \E t \in PersistTasks : PersistCreate(t)
    \/ \E t \in PersistTasks : PersistWrite(t)
    \/ \E t \in PersistTasks : PersistRename(t)
    \/ Restart
    \/ \E t \in PersistTasks : LoadStart(t)
    \/ \E t \in PersistTasks : StartMap(t)
    \/ \E t \in PersistTasks : StartLock(t)
    \/ \E t \in PersistTasks : StartSpawn(t)
    \/ SchedWake
    \/ SchedVisit
    \/ \E h \in Handles : ServerReply(h)
    \/ PersistAdvance

PersistSpec == PersistInit /\ [][PersistNext]_vars

C37_StateFileWhole == disk.state # 0 => parses(disk.data[disk.state])

\* ------------------------------------------------ the desktop's identifiers
\* The desktop build's create_instance, load_instance_torrent and
\* import_torrent_files, called concurrently.  Call c has the record
\* tasks[c]: the base id it has read, the number of torrent files it was
\* given, and the ids it has handed out or inserted.  An entry of the
\* registry records the call that made it.
MaxDesktopCalls == 3
MaxPaths == 2

DesktopCalls == 1..MaxDesktopCalls
DesktopIds == 1..(MaxDesktopCalls * MaxPaths + 1)

NoCall == [op |-> "none", pc |-> "idle", base_id |-> 0, paths |-> 0, ids |-> {}]
NoEntry == [present |-> FALSE, by |-> 0]

DesktopInit ==
    /\ now = 0
    /\ faker = newAt(BaseConfig, 0)
    /\ instances = [id \in DesktopIds |-> NoEntry]
    /\ fakers = <<>>
    /\ handle_id = <<>>
    /\ engine_lock = <<>>
    /\ map_lock = [w |-> None, r |-> {}]
    /\ tasks = [c \in DesktopCalls |-> NoCall]
    /\ requests = 0
    /\ history = NoHistory
    /\ peer = NoPeer
    /\ sent = NothingSent
    /\ disk = NoDisk
    /\ next_instance_id = 1
    /\ sched = [pc |-> "off"]

\* Call c is the next one to be made.
NextCall(c) ==
    /\ tasks[c].op = "none"
    /\ \A b \in 1..(c - 1) : tasks[b].op # "none"

\* create_instance: under the counter's write lock the id is read and the
\* counter is incremented.
DesktopCreate(c) ==
    /\ NextCall(c)
    /\ tasks' = [tasks EXCEPT ![c] = [NoCall EXCEPT !.op = "create", !.pc = "created",
                                                   !.ids = {next_instance_id}]]
    /\ next_instance_id' = next_instance_id + 1
    /\ UNCHANGED <<now, faker, instances, fakers, handle_id, engine_lock, map_lock,
                   requests, sched, history, peer, sent, disk>>

\* load_instance_torrent for the id that create_instance returned: a vacant
\* entry is filled, an occupied one gets the torrent and a new engine.
DesktopLoadTorrent(c) ==
    /\ tasks[c].pc = "created"
    /\ \E id \in tasks[c].ids :
          instances' = [instances EXCEPT ![id] = [present |-> TRUE, by |-> c]]
    /\ tasks' = [tasks EXCEPT ![c].pc = "done"]
    /\ UNCHANGED <<now, faker, fakers, handle_id, engine_lock, map_lock,
                   requests, sched, hvars>>

\* import_torrent_files with n torrent files: the counter is read under its
\* write lock, which is dropped.
ImportBase(c, n) ==
    /\ NextCall(c)
    /\ tasks' = [tasks EXCEPT ![c] = [NoCall EXCEPT !.op = "import", !.pc = "import_insert",
                                                   !.base_id = next_instance_id,
                                                   !.paths = n]]
    /\ UNCHANGED <<now, faker, instances, fakers, handle_id, engine_lock, map_lock,
                   requests, sched, hvars>>

\* import_torrent_files: the ids of the entries it inserts, base_id + i.
import_ids(base_id, n) == base_id..(base_id + n - 1)

\* import_torrent_files, under the registry's write lock: an entry is
\* inserted under base_id + i for the i-th file.
ImportInsert(c) ==
    /\ tasks[c].pc = "import_insert"
    /\ LET ids == import_ids(tasks[c].base_id, tasks[c].paths)
       IN  /\ instances' = [id \in DesktopIds |->
                              IF id \in ids THEN [present |-> TRUE, by |-> c]
                                            ELSE instances[id]]
           /\ tasks' = [tasks EXCEPT ![c].pc = "import_bump", ![c].ids = ids]
    /\ UNCHANGED <<now, faker, fakers, handle_id, engine_lock, map_lock,
                   requests, sched, hvars>>

\* imported.iter().map(|i| i.id).max()
MaxOf(S) == CHOOSE x \in S : \A y \in S : y <= x

\* import_torrent_files: under the counter's write lock the counter is moved
\* past the largest id imported, if it is not already.
ImportBump(c) ==
    /\ tasks[c].pc = "import_bump"
    /\ next_instance_id' = IF MaxOf(tasks[c].ids) >= next_instance_id
                             THEN MaxOf(tasks[c].ids) + 1
                             ELSE next_instance_id
    /\ tasks' = [tasks EXCEPT ![c].pc = "done"]
    /\ UNCHANGED <<now, faker, instances, fakers, handle_id, engine_lock, map_lock,
                   requests, sched, history, peer, sent, disk>>

DesktopNext ==
    \/ \E c \in DesktopCalls : DesktopCreate(c)
    \/ \E c \in DesktopCalls : DesktopLoadTorrent(c)
    \/ \E c \in DesktopCalls, n \in 1..MaxPaths : ImportBase(c, n)
    \/ \E c \in DesktopCalls : ImportInsert(c)
    \/ \E c \in DesktopCalls : ImportBump(c)

DesktopSpec == DesktopInit /\ [][DesktopNext]_vars

\* C38: no id is handed out by two calls of create_instance and
\* import_torrent_files, and an entry of the registry stays the entry of the
\* call that made it.
C38_IdsUnique ==
    /\ [](\A b, c \in DesktopCalls : b # c => tasks[b].ids \cap tasks[c].ids = {})
    /\ [][ \A id \in DesktopIds :
             instances[id].present => instances'[id] = instances[id] ]_vars

====
